---- MODULE Spec2Model ----
(***************************************************************************)
(* Model of ea_webstore: the configuration loader (core/config.py), the   *)
(* two store connectors (webstore/connector.py with its SWGOH subclass,   *)
(* webstore/lotr/connector.py), their sched-based task queue, the run     *)
(* cycle and the OTC login that polls the Gmail inbox.                     *)
(*                                                                         *)
(* Nine specifications share the variables:                                *)
(*   Spec        - a constructed connector: start(), run cycles, scheduler *)
(*   SpecBoot    - cli.main: load_global_config, connector construction    *)
(*   SpecLogin   - one login attempt racing against the inbox              *)
(*   SpecSession - save_session and load_session of the session pickle     *)
(*   SpecClock   - Spec with a store that is slow to answer                *)
(*   SpecLock    - invocations of cli.main for one account, side by side   *)
(*   SpecLive    - Spec in self-scheduling mode with a fair scheduler loop *)
(*   SpecMailbox - SpecLogin with failing listings and deleted messages    *)
(*   SpecWindow  - the SWGOH handler on items in and out of their window   *)
(***************************************************************************)
EXTENDS Integers, Sequences, FiniteSets, TLC

VARIABLES
    variant,    \* "lotr" (LotRWebstoreConnector) or "swgoh" (SwgohWebstoreConnector)
    cfg,        \* the raw option strings of the [General] section (Config.config)
    now,        \* the clock: time() of the scheduler, datetime.now() of the handlers
    queue,      \* scheduler.queue: the events, ordered by (time, priority, insertion)
    pc,         \* where the single thread of control is
    ctx,        \* what called the current run cycle or task: "start" or "sched"
    depth,      \* nesting of run() -> schedule_run(True) -> run()
    offers,     \* the store data returned by the last successful get_offers
    idx,        \* index of the next offer the cycle handles
    purchases,  \* the cycle's local counter of purchases
    auth_id,    \* EAWebstoreConnector.auth_id is set (always FALSE for lotr)
    err,        \* the exception that ended the process, "" if none
    calls,      \* history: the calls made by the current run cycle or fired task
    \* cli.main and the connector's __init__
    config_instance,  \* Config._instance: "None" or "Config"
    lock,             \* the account's lock file: "free", "other" (another process), "held"
    session_file,     \* the session pickle on disk: "missing", "valid" or "corrupt"
    session,          \* self.session: "fresh" (Session()) or "loaded" (unpickled)
    \* one login attempt
    max_login_attempts, \* Config.max_login_attempts
    inbox,              \* the messages of the mailbox, oldest first; a message's id is its index
    pre_messages_list,  \* the ids of the listing held as baseline, newest first
    polled,             \* the polls of the inbox this login has made after the baseline
    code,               \* the code extracted so far, <<>> if none
    snapshots,          \* the size of the inbox at the baseline listing and at each poll
    responses,          \* what the mail API does at each of these listings
    verify_code,        \* history: the codes sent to the verify endpoint, in order
    session_saved,      \* history: save_session was called by this login
    \* the content of the session and of its pickle
    cookies,            \* self.session.cookies: the names of the cookies held
    pickled,            \* the cookies of the session in the pickle, when there is one
    \* the scheduler loop
    fired,              \* history: the event scheduler.run() called last and when, <<>> if none
    lagged,             \* history: the store has been slow to answer once
    \* the invocations of cli.main for one account
    cwd,                \* the working directory of each invocation
    ppc,                \* where each invocation is in cli.main
    lock_files          \* the lock files held, each the path LockFile resolved

schedVars == <<variant, cfg, now, queue, pc, ctx, depth, offers, idx, purchases,
               auth_id, err, calls>>

bootVars == <<config_instance, lock, session_file, session>>

loginVars == <<max_login_attempts, inbox, pre_messages_list, polled, code, snapshots,
               responses,
               verify_code, session_saved>>

sessVars == <<cookies, pickled>>

histVars == <<fired, lagged>>

procVars == <<cwd, ppc, lock_files>>

vars == <<schedVars, bootVars, loginVars, sessVars, histVars, procVars>>

\* pickle.dump(self.session, file): the state of the Session object and nothing of
\* the connector that holds it (email, auth_id, scheduler)
pickle_dump(session_cookies) == [cookies |-> session_cookies]

\* pickle.load(file): the Session object the pickle describes
pickle_load(file) == file.cookies

\* the value of pickled while there is no readable pickle
NoPickle == pickle_dump({})

-----------------------------------------------------------------------------
(* Bounds of the model *)

\* the scheduler loop fires no event later than this (the code runs forever)
MaxTime == 1900
\* the largest number of offers in one store snapshot
MaxOffers == 2
\* the nested re-runs the interpreter's stack has room for: each one adds the
\* frames of schedule_run and run, and the call past the recursion limit raises
\* RecursionError (some hundred re-runs with the default limit)
MaxDepth == 1
\* the largest max_verification_attempts explored (the option's default is 10)
MaxLoginAttempts == 2
\* the largest number of messages the mailbox holds
MaxMail == 3

-----------------------------------------------------------------------------
(* core/config.py *)

Absent == "<absent>"

\* configparser.RawConfigParser.BOOLEAN_STATES, keyed by value.lower()
Lower(raw) ==
    CASE raw = "True" -> "true"
      [] raw = "YES" -> "yes"
      [] raw = "Off" -> "off"
      [] OTHER -> raw

TrueWords == {"1", "yes", "true", "on"}
FalseWords == {"0", "no", "false", "off"}

\* getboolean raises ValueError on a value that is no boolean word
IsBooleanWord(raw) == Lower(raw) \in TrueWords \cup FalseWords

getboolean(raw, fallback) ==
    IF raw = Absent THEN fallback ELSE Lower(raw) \in TrueWords

IntWords == {"0", "1800", "3600"}

getint(raw, fallback) ==
    CASE raw = Absent -> fallback
      [] raw = "0" -> 0
      [] raw = "1800" -> 1800
      [] raw = "3600" -> 3600

is_self_scheduling == getboolean(cfg.script_is_self_scheduling, FALSE)

allow_scheduling == getboolean(cfg.allow_scheduling, FALSE)

max_delay_scheduling_time == getint(cfg.max_delay_scheduling_time, 0)

-----------------------------------------------------------------------------
(* sched.scheduler as the connectors use it *)

PingDelay == 60
ConnectionCheckDelay == 1800
RunDelay == 3600
RunAfterPurchase == 5

NoKwargs == [k \in {} |-> ""]

PurchaseKwargs(item_id, currency_type) ==
    [item_id |-> item_id, currency_type |-> currency_type]

Event(time, priority, action, kwargs) ==
    [time |-> time, priority |-> priority, action |-> action, kwargs |-> kwargs]

\* an event already queued stays ahead of a new one with the same (time, priority)
Ahead(a, e) ==
    a.time < e.time \/ (a.time = e.time /\ a.priority <= e.priority)

\* a queue that keeps the events in the order they were entered
enter_last(q, e) == Append(q, e)

enterabs(q, e) ==
    LET k == Cardinality({i \in 1..Len(q) : Ahead(q[i], e)})
    IN SubSeq(q, 1, k) \o <<e>> \o SubSeq(q, k + 1, Len(q))

enter(q, t, delay, priority, action, kwargs) ==
    enterabs(q, Event(t + delay, priority, action, kwargs))

-----------------------------------------------------------------------------
(* The storefront's answers *)

Statuses == {200, 401, 500}

\* a call that hands every answer but 200 to its caller as None
none_unless_200(status) == IF status = 200 THEN "payload" ELSE "None"

\* get_offers: what it returns for the status of the answer, or the exception it
\* raises
get_offers(status) ==
    IF status = 200 THEN "payload"
    ELSE IF status = 401 THEN "None"
    ELSE "NotImplementedError"

\* purchase_offer: what it returns for the status of the answer, or the exception
\* it raises
purchase_offer(status) ==
    IF status = 200 THEN "payload"
    ELSE IF status = 401 THEN "None"
    ELSE "NotImplementedError"

\* webstore/lotr/types.py: the fields of Offer and OfferPrice the run cycle reads
LotrOffer(id, free, amount, cooldown) ==
    [id |-> id, is_free_offer |-> free, purchase_amount |-> amount,
     purchase_cooldown_left |-> cooldown, purchase_currency |-> "PREMIUM"]

LotrOffers ==
    { LotrOffer("X", TRUE, 0, 0),
      LotrOffer("X", TRUE, 0, 1800),
      LotrOffer("X", TRUE, 0, 3600),
      LotrOffer("item_id", TRUE, 0, 3600),
      LotrOffer("X", TRUE, 5, 0),
      LotrOffer("X", FALSE, 0, 0) }

None == -1000000

\* webstore/swgoh/store_types.py: the fields of StoreItem and Offer that
\* _handle_offers reads; times are seconds relative to the start of the process
SwgohOffer(currencyType, availableAtEpoch) ==
    [currencyType |-> currencyType, availableAtEpoch |-> availableAtEpoch, price |-> 0]

\* an offer whose price field is not zero
PricedOffer(currencyType, availableAtEpoch, price) ==
    [currencyType |-> currencyType, availableAtEpoch |-> availableAtEpoch,
     price |-> price]

StoreItem(id, itemOffers, startTime, endTime) ==
    [id |-> id, offers |-> itemOffers, startTime |-> startTime, endTime |-> endTime]

SwgohItems ==
    { StoreItem("X", <<SwgohOffer("FREE", -5)>>, -10, 100000),
      StoreItem("X", <<SwgohOffer("FREE", 1800)>>, -10, 100000),
      StoreItem("X", <<SwgohOffer("PREMIUM", 0), SwgohOffer("FREE", 3600)>>, -10, 100000),
      StoreItem("item_id", <<SwgohOffer("FREE", 3600)>>, -10, 100000),
      StoreItem("X", <<SwgohOffer("PREMIUM", 0)>>, -10, 100000),
      StoreItem("X", <<SwgohOffer("FREE", None)>>, -10, 100000),
      StoreItem("X", <<PricedOffer("FREE", -5, 5)>>, -10, 100000),
      StoreItem("X", <<SwgohOffer("FREE", 90000)>>, -10, 100000) }

SeqsUpTo(S, n) == UNION {[1..k -> S] : k \in 0..n}

\* StoreData built by get_offers from a 200 response
Snapshots ==
    IF variant = "lotr" THEN SeqsUpTo(LotrOffers, MaxOffers)
    ELSE SeqsUpTo(SwgohItems, MaxOffers)

-----------------------------------------------------------------------------
(* schedule_purchase and schedule_run, as functions of the queue *)

Call(op, status, log, item, delay) ==
    [op |-> op, status |-> status, log |-> log, item |-> item, delay |-> delay]

\* "item_id in queue_entry.kwargs": membership in the keys of the kwargs dict
item_in_kwargs(q, item_id) ==
    \E i \in 1..Len(q) :
        /\ q[i].action = "purchase_offer"
        /\ item_id \in DOMAIN q[i].kwargs

\* schedule_purchase without the test of the scheduling modes
schedule_purchase_any_mode(q, t, delay, item_id, currency_type) ==
    IF item_in_kwargs(q, item_id)
    THEN [queue |-> q, log |-> "warning: item already scheduled"]
    ELSE [queue |-> enter(q, t, delay, 1, "purchase_offer",
                          PurchaseKwargs(item_id, currency_type)),
          log |-> "info: scheduled purchase"]

EA_schedule_purchase(q, t, delay, item_id, currency_type) ==
    IF ~is_self_scheduling /\ ~allow_scheduling
    THEN [queue |-> q, log |-> "info: scheduling is deactivated"]
    ELSE IF /\ allow_scheduling
            /\ max_delay_scheduling_time > 0
            /\ max_delay_scheduling_time < delay
    THEN [queue |-> q, log |-> "info: delay exceeds the max allowed delay"]
    ELSE IF item_in_kwargs(q, item_id)
    THEN [queue |-> q, log |-> "warning: item already scheduled"]
    ELSE [queue |-> enter(q, t, delay, 1, "purchase_offer",
                          PurchaseKwargs(item_id, currency_type)),
          log |-> "info: scheduled purchase"]

\* schedule_purchase without the branch on max_delay_scheduling_time
schedule_purchase_uncapped(q, t, delay, item_id, currency_type) ==
    IF ~is_self_scheduling /\ ~allow_scheduling
    THEN [queue |-> q, log |-> ""]
    ELSE IF item_in_kwargs(q, item_id)
    THEN [queue |-> q, log |-> "warning: item already scheduled"]
    ELSE [queue |-> enter(q, t, delay, 1, "purchase_offer",
                          PurchaseKwargs(item_id, currency_type)),
          log |-> "info: scheduled purchase"]

LotR_schedule_purchase(q, t, delay, item_id, currency_type) ==
    IF ~is_self_scheduling /\ ~allow_scheduling
    THEN [queue |-> q, log |-> ""]
    ELSE IF /\ allow_scheduling
            /\ max_delay_scheduling_time > 0
            /\ max_delay_scheduling_time < delay
    THEN [queue |-> q, log |-> ""]
    ELSE IF item_in_kwargs(q, item_id)
    THEN [queue |-> q, log |-> "warning: item already scheduled"]
    ELSE [queue |-> enter(q, t, delay, 1, "purchase_offer",
                          PurchaseKwargs(item_id, currency_type)),
          log |-> "info: scheduled purchase"]

schedule_purchase(q, t, delay, item_id, currency_type) ==
    IF variant = "lotr"
    THEN LotR_schedule_purchase(q, t, delay, item_id, currency_type)
    ELSE EA_schedule_purchase(q, t, delay, item_id, currency_type)

PurchaseEntries(q) == {i \in 1..Len(q) : q[i].action = "purchase_offer"}

Min(S) == CHOOSE x \in S : \A y \in S : x <= y

\* the purchase_offer entry that is last in queue order
last_purchase(q) ==
    q[CHOOSE i \in PurchaseEntries(q) : \A j \in PurchaseEntries(q) : j <= i]

\* the first purchase_offer entry in queue order, the "purchase_queue" of schedule_run
first_purchase(q) == q[Min(PurchaseEntries(q))]

\* schedule_run(False) once a scheduling mode is known to be enabled
EA_schedule_run(q, t) ==
    IF PurchaseEntries(q) # {}
    THEN enterabs(q, Event(first_purchase(q).time + RunAfterPurchase, 1, "run", NoKwargs))
    ELSE IF allow_scheduling
    THEN q
    ELSE enter(q, t, RunDelay, 1, "run", NoKwargs)

\* a schedule_run that enters a run only behind a queued purchase
schedule_run_without_fallback(q, t) ==
    IF PurchaseEntries(q) # {}
    THEN enterabs(q, Event(first_purchase(q).time + RunAfterPurchase, 1, "run", NoKwargs))
    ELSE q

LotR_schedule_run(q, t) ==
    IF PurchaseEntries(q) # {}
    THEN enterabs(q, Event(first_purchase(q).time + RunAfterPurchase, 1, "run", NoKwargs))
    ELSE enter(q, t, RunDelay, 1, "run", NoKwargs)

-----------------------------------------------------------------------------
(* The run cycle and the scheduler loop of a constructed connector *)

Max(a, b) == IF a >= b THEN a ELSE b

\* an exception nobody catches: it leaves run(), scheduler.run() and start()
Raise(name) ==
    /\ pc' = "crashed"
    /\ err' = name

\* entry of run(): EAWebstoreConnector.run logs in first, LotR fetches first
BeginRun ==
    /\ pc' = IF variant = "lotr" THEN "get_offers" ELSE "login"
    /\ purchases' = 0
    /\ idx' = 0
    /\ offers' = <<>>
    /\ calls' = <<>>

\* start(): self.run()
start ==
    /\ pc = "start"
    /\ BeginRun
    /\ ctx' = "start"
    /\ UNCHANGED <<variant, cfg, now, queue, depth, auth_id, err>>
    /\ UNCHANGED <<bootVars, loginVars, sessVars, histVars, procVars>>

\* EAWebstoreConnector.run: self.login(); login returns at once when auth_id is
\* set, otherwise it performs the login, which sets auth_id or raises
EA_run_login ==
    /\ pc = "login"
    /\ variant = "swgoh"
    /\ \/ /\ auth_id
          /\ calls' = Append(calls, Call("login", 0, "skipped", "", 0))
          /\ pc' = "get_offers"
          /\ UNCHANGED <<auth_id, err>>
       \/ /\ ~auth_id
          /\ calls' = Append(calls, Call("login", 200, "performed", "", 0))
          /\ auth_id' = TRUE
          /\ pc' = "get_offers"
          /\ UNCHANGED err
       \/ /\ ~auth_id
          /\ calls' = Append(calls, Call("login", 500, "raised", "", 0))
          /\ Raise("Exception")
          /\ UNCHANGED auth_id
    /\ UNCHANGED <<variant, cfg, now, queue, ctx, depth, offers, idx, purchases>>
    /\ UNCHANGED <<bootVars, loginVars, sessVars, histVars, procVars>>

\* the first get_offers of a cycle and what run() does with its result
LotR_run_get_offers ==
    /\ pc = "get_offers"
    /\ variant = "lotr"
    /\ \E status \in Statuses :
        /\ calls' = Append(calls, Call("get_offers", status, "", "", 0))
        /\ CASE get_offers(status) = "payload" ->
                  /\ \E data \in Snapshots : offers' = data
                  /\ idx' = 1
                  /\ pc' = "handle"
                  /\ UNCHANGED err
             [] get_offers(status) = "None" ->
                  /\ pc' = "relogin"
                  /\ UNCHANGED <<offers, idx, err>>
             [] OTHER ->
                  /\ Raise(get_offers(status))
                  /\ UNCHANGED <<offers, idx>>
    /\ UNCHANGED <<variant, cfg, now, queue, ctx, depth, purchases, auth_id>>
    /\ UNCHANGED <<bootVars, loginVars, sessVars, histVars, procVars>>

\* EAWebstoreConnector.run passes the result of get_offers to _handle_offers,
\* which reads offers.items: None (the 401 result) raises AttributeError
EA_run_get_offers ==
    /\ pc = "get_offers"
    /\ variant = "swgoh"
    /\ \E status \in Statuses :
        /\ calls' = Append(calls, Call("get_offers", status, "", "", 0))
        /\ CASE get_offers(status) = "payload" ->
                  /\ \E data \in Snapshots : offers' = data
                  /\ idx' = 1
                  /\ pc' = "handle"
                  /\ UNCHANGED err
             [] get_offers(status) = "None" ->
                  /\ Raise("AttributeError")
                  /\ UNCHANGED <<offers, idx>>
             [] OTHER ->
                  /\ Raise(get_offers(status))
                  /\ UNCHANGED <<offers, idx>>
    /\ UNCHANGED <<variant, cfg, now, queue, ctx, depth, purchases, auth_id>>
    /\ UNCHANGED <<bootVars, loginVars, sessVars, histVars, procVars>>

\* LotRWebstoreConnector.run: "if not offers: self.login()"
LotR_run_login ==
    /\ pc = "relogin"
    /\ \/ /\ calls' = Append(calls, Call("login", 200, "performed", "", 0))
          /\ pc' = "refetch"
          /\ UNCHANGED err
       \/ /\ calls' = Append(calls, Call("login", 500, "raised", "", 0))
          /\ \E e \in {"ValueError", "NotImplementedError"} : Raise(e)
    /\ UNCHANGED <<variant, cfg, now, queue, ctx, depth, offers, idx, purchases, auth_id>>
    /\ UNCHANGED <<bootVars, loginVars, sessVars, histVars, procVars>>

\* LotRWebstoreConnector.run: "offers = self.get_offers()" after the login; a second
\* 401 leaves offers None and offers.web_store_offers raises AttributeError
LotR_run_refetch ==
    /\ pc = "refetch"
    /\ \E status \in Statuses :
        /\ calls' = Append(calls, Call("get_offers", status, "", "", 0))
        /\ CASE get_offers(status) = "payload" ->
                  /\ \E data \in Snapshots : offers' = data
                  /\ idx' = 1
                  /\ pc' = "handle"
                  /\ UNCHANGED err
             [] get_offers(status) = "None" ->
                  /\ Raise("AttributeError")
                  /\ UNCHANGED <<offers, idx>>
             [] OTHER ->
                  /\ Raise(get_offers(status))
                  /\ UNCHANGED <<offers, idx>>
    /\ UNCHANGED <<variant, cfg, now, queue, ctx, depth, purchases, auth_id>>
    /\ UNCHANGED <<bootVars, loginVars, sessVars, histVars, procVars>>

\* one iteration of the loop over offers.web_store_offers in LotRWebstoreConnector.run
LotR_run_offer ==
    /\ pc = "handle"
    /\ variant = "lotr"
    /\ idx <= Len(offers)
    /\ LET offer == offers[idx] IN
        IF ~offer.is_free_offer \/ offer.purchase_amount > 0
        THEN /\ idx' = idx + 1
             /\ UNCHANGED <<queue, pc, purchases, err, calls>>
        ELSE IF offer.purchase_cooldown_left # 0
        THEN LET r == LotR_schedule_purchase(queue, now, offer.purchase_cooldown_left,
                                             offer.id, offer.purchase_currency)
             IN /\ queue' = r.queue
                /\ calls' = Append(calls, Call("schedule_purchase", 0, r.log, offer.id,
                                               offer.purchase_cooldown_left))
                /\ idx' = idx + 1
                /\ UNCHANGED <<pc, purchases, err>>
        ELSE \E status \in Statuses :
                /\ purchases' = purchases + 1
                /\ calls' = Append(calls, Call("purchase_offer", status, "", offer.id, 0))
                /\ CASE purchase_offer(status) = "payload" ->
                          /\ idx' = idx + 1
                          /\ UNCHANGED <<pc, err>>
                     [] purchase_offer(status) = "None" ->
                          \* response is None: response["itemsGranted"]
                          /\ Raise("TypeError")
                          /\ UNCHANGED idx
                     [] OTHER ->
                          /\ Raise(purchase_offer(status))
                          /\ UNCHANGED idx
                /\ UNCHANGED queue
    /\ UNCHANGED <<variant, cfg, now, ctx, depth, offers, auth_id>>
    /\ UNCHANGED <<bootVars, loginVars, sessVars, histVars, procVars>>

SecondsPerDay == 86400

\* timedelta.seconds of a non-negative difference: the days are a separate field
timedelta_seconds(d) == d % SecondsPerDay

free_offers(item) == SelectSeq(item.offers, LAMBDA o : o.currencyType = "FREE")

\* one iteration of the loop over offers.items in SwgohWebstoreConnector._handle_offers
Swgoh_handle_offers_item ==
    /\ pc = "handle"
    /\ variant = "swgoh"
    /\ idx <= Len(offers)
    /\ LET item == offers[idx] IN
        IF free_offers(item) = <<>>
        THEN /\ idx' = idx + 1
             /\ UNCHANGED <<queue, pc, purchases, err, calls>>
        ELSE LET free_offer == Head(free_offers(item))
                 available_at == free_offer.availableAtEpoch
             IN
             IF now < item.startTime \/ item.endTime < now
             THEN /\ idx' = idx + 1
                  /\ UNCHANGED <<queue, pc, purchases, err, calls>>
             ELSE IF available_at = None
             THEN \* datetime.fromtimestamp(None)
                  /\ Raise("TypeError")
                  /\ UNCHANGED <<queue, idx, purchases, calls>>
             ELSE IF now < available_at
             THEN LET delay == timedelta_seconds(available_at - now)
                      r == EA_schedule_purchase(queue, now, delay, item.id,
                                                free_offer.currencyType)
                  IN /\ queue' = r.queue
                     /\ calls' = Append(calls, Call("schedule_purchase", 0, r.log,
                                                    item.id, delay))
                     /\ idx' = idx + 1
                     /\ UNCHANGED <<pc, purchases, err>>
             ELSE \E status \in Statuses :
                     /\ calls' = Append(calls, Call("purchase_offer", status, "", item.id, 0))
                     /\ IF purchase_offer(status) \in {"payload", "None"}
                        THEN /\ purchases' = purchases + 1
                             /\ idx' = idx + 1
                             /\ UNCHANGED <<pc, err>>
                        ELSE /\ Raise(purchase_offer(status))
                             /\ UNCHANGED <<idx, purchases>>
                     /\ UNCHANGED queue
    /\ UNCHANGED <<variant, cfg, now, ctx, depth, offers, auth_id>>
    /\ UNCHANGED <<bootVars, loginVars, sessVars, histVars, procVars>>

\* run() has handled every offer and calls schedule_run(purchases > 0)
AtScheduleRun == pc = "handle" /\ idx > Len(offers)

\* a cycle that never takes itself to have purchased
never_directly == FALSE

run_directly == purchases > 0

\* run() and every enclosing schedule_run return to start() or to scheduler.run();
\* the locals of run() are gone
ReturnFromRun ==
    /\ pc' = "loop"
    /\ depth' = 0
    /\ offers' = <<>>
    /\ idx' = 0
    /\ purchases' = 0
    /\ calls' = <<>>

LotR_schedule_run_step ==
    /\ AtScheduleRun
    /\ variant = "lotr"
    /\ IF ~is_self_scheduling /\ ~allow_scheduling
       THEN /\ ReturnFromRun
            /\ UNCHANGED <<queue, err>>
       ELSE IF run_directly
       THEN IF depth < MaxDepth
            THEN /\ depth' = depth + 1
                 /\ BeginRun
                 /\ UNCHANGED <<queue, err>>
            ELSE /\ Raise("RecursionError")
                 /\ UNCHANGED <<queue, depth, offers, idx, purchases, calls>>
       ELSE /\ queue' = LotR_schedule_run(queue, now)
            /\ ReturnFromRun
            /\ UNCHANGED err
    /\ UNCHANGED <<variant, cfg, now, ctx, auth_id>>
    /\ UNCHANGED <<bootVars, loginVars, sessVars, histVars, procVars>>

EA_schedule_run_step ==
    /\ AtScheduleRun
    /\ variant = "swgoh"
    /\ IF ~is_self_scheduling /\ ~allow_scheduling
       THEN /\ ReturnFromRun
            /\ UNCHANGED <<queue, err>>
       ELSE IF run_directly
       THEN IF depth < MaxDepth
            THEN /\ depth' = depth + 1
                 /\ BeginRun
                 /\ UNCHANGED <<queue, err>>
            ELSE /\ Raise("RecursionError")
                 /\ UNCHANGED <<queue, depth, offers, idx, purchases, calls>>
       ELSE /\ queue' = EA_schedule_run(queue, now)
            /\ ReturnFromRun
            /\ UNCHANGED err
    /\ UNCHANGED <<variant, cfg, now, ctx, auth_id>>
    /\ UNCHANGED <<bootVars, loginVars, sessVars, histVars, procVars>>

-----------------------------------------------------------------------------
(* scheduler.run(): pop the earliest event, wait for its time, call its action *)

\* a ping that enters itself whatever the mode
ping_in_every_mode(q, t) == enter(q, t, PingDelay, 1, "schedule_ping", NoKwargs)

\* a ping that enters itself for the same instant
ping_without_delay(q, t) ==
    IF ~is_self_scheduling THEN q
    ELSE enter(q, t, 0, 1, "schedule_ping", NoKwargs)

schedule_ping(q, t) ==
    IF ~is_self_scheduling THEN q
    ELSE enter(q, t, PingDelay, 1, "schedule_ping", NoKwargs)

\* what session.get("https://google.com", timeout=5) does
Probes == {"ok", "ConnectionError", "Timeout"}

\* a connection check that lets the failure of its probe through
probe_propagates(probe) == IF probe = "ok" THEN "" ELSE probe

\* the try block of schedule_connection_check: the exception that leaves it, "" if
\* none does; RequestConnectionError and RequestTimeout are caught and logged
connection_check(probe) ==
    IF probe \in {"ok", "ConnectionError", "Timeout"} THEN "" ELSE probe

\* the finally clause re-enters whatever the probe did
schedule_connection_check(q, t) ==
    IF ~is_self_scheduling THEN q
    ELSE enter(q, t, ConnectionCheckDelay, 1, "schedule_connection_check", NoKwargs)

\* what is remembered of the event the loop called: its time, its priority and the
\* clock when its action was called
Fired(event, started) ==
    [time |-> event.time, priority |-> event.priority, started |-> started]

Due(action) ==
    /\ pc = "loop"
    /\ queue # <<>>
    /\ Head(queue).time <= MaxTime
    /\ Head(queue).action = action

fire_schedule_ping ==
    /\ Due("schedule_ping")
    /\ now' = Max(now, Head(queue).time)
    /\ fired' = <<Fired(Head(queue), now')>>
    /\ UNCHANGED lagged
    /\ queue' = schedule_ping(Tail(queue), now')
    /\ ctx' = "sched"
    /\ calls' = <<>>
    /\ UNCHANGED <<variant, cfg, pc, depth, offers, idx, purchases, auth_id, err>>
    /\ UNCHANGED <<bootVars, loginVars, sessVars, procVars>>

fire_schedule_connection_check ==
    /\ Due("schedule_connection_check")
    /\ now' = Max(now, Head(queue).time)
    /\ fired' = <<Fired(Head(queue), now')>>
    /\ UNCHANGED lagged
    /\ \E probe \in Probes :
        /\ queue' = schedule_connection_check(Tail(queue), now')
        /\ calls' = <<Call("connection_check", 0, probe, "", 0)>>
        /\ IF connection_check(probe) = ""
           THEN UNCHANGED <<pc, err>>
           ELSE Raise(connection_check(probe))
    /\ ctx' = "sched"
    /\ UNCHANGED <<variant, cfg, depth, offers, idx, purchases, auth_id>>
    /\ UNCHANGED <<bootVars, loginVars, sessVars, procVars>>

\* a loop that calls the purchase and leaves its event in the queue
fire_purchase_offer_keeping_event ==
    /\ Due("purchase_offer")
    /\ now' = Max(now, Head(queue).time)
    /\ fired' = <<Fired(Head(queue), now')>>
    /\ UNCHANGED lagged
    /\ queue' = queue
    /\ ctx' = "sched"
    /\ \E status \in Statuses :
        /\ calls' = <<Call("purchase_offer", status, "", Head(queue).kwargs.item_id, 0)>>
        /\ IF purchase_offer(status) \in {"payload", "None"}
           THEN UNCHANGED <<pc, err>>
           ELSE Raise(purchase_offer(status))
    /\ UNCHANGED <<variant, cfg, depth, offers, idx, purchases, auth_id>>
    /\ UNCHANGED <<bootVars, loginVars, sessVars, procVars>>

\* the queued action is the bound method purchase_offer: its result is dropped
\* by the scheduler, its NotImplementedError is not caught by anything
fire_purchase_offer ==
    /\ Due("purchase_offer")
    /\ now' = Max(now, Head(queue).time)
    /\ fired' = <<Fired(Head(queue), now')>>
    /\ UNCHANGED lagged
    /\ queue' = Tail(queue)
    /\ ctx' = "sched"
    /\ \E status \in Statuses :
        /\ calls' = <<Call("purchase_offer", status, "", Head(queue).kwargs.item_id, 0)>>
        /\ IF purchase_offer(status) \in {"payload", "None"}
           THEN UNCHANGED <<pc, err>>
           ELSE Raise(purchase_offer(status))
    /\ UNCHANGED <<variant, cfg, depth, offers, idx, purchases, auth_id>>
    /\ UNCHANGED <<bootVars, loginVars, sessVars, procVars>>

\* a loop that calls the run and leaves its event in the queue
fire_run_keeping_event ==
    /\ Due("run")
    /\ now' = Max(now, Head(queue).time)
    /\ fired' = <<Fired(Head(queue), now')>>
    /\ UNCHANGED lagged
    /\ queue' = queue
    /\ ctx' = "sched"
    /\ depth' = 0
    /\ BeginRun
    /\ UNCHANGED <<variant, cfg, auth_id, err>>
    /\ UNCHANGED <<bootVars, loginVars, sessVars, procVars>>

fire_run ==
    /\ Due("run")
    /\ now' = Max(now, Head(queue).time)
    /\ fired' = <<Fired(Head(queue), now')>>
    /\ UNCHANGED lagged
    /\ queue' = Tail(queue)
    /\ ctx' = "sched"
    /\ depth' = 0
    /\ BeginRun
    /\ UNCHANGED <<variant, cfg, auth_id, err>>
    /\ UNCHANGED <<bootVars, loginVars, sessVars, procVars>>

\* a slow answer keeps the thread waiting long enough for a ping to become overdue
Lag == 2 * PingDelay

\* the store is slow to answer the offer fetch of a cycle: the clock moves on while
\* the one thread waits in session.get (in this model once in a run of the program)
get_offers_takes_time ==
    /\ pc = "get_offers"
    /\ ~lagged
    /\ now + Lag <= MaxTime
    /\ now' = now + Lag
    /\ lagged' = TRUE
    /\ UNCHANGED <<variant, cfg, queue, pc, ctx, depth, offers, idx, purchases,
                   auth_id, err, calls>>
    /\ UNCHANGED <<bootVars, loginVars, sessVars, procVars>>
    /\ UNCHANGED fired

\* the queue is empty: scheduler.run() returns and start() logs "Finished script!"
scheduler_run_returns ==
    /\ pc = "loop"
    /\ queue = <<>>
    /\ pc' = "finished"
    /\ UNCHANGED <<variant, cfg, now, queue, ctx, depth, offers, idx, purchases,
                   auth_id, err, calls>>
    /\ UNCHANGED <<bootVars, loginVars, sessVars, histVars, procVars>>

-----------------------------------------------------------------------------
(* The connector after __init__, for every configuration load_config accepts *)

Config(self_scheduling, allow, max_delay) ==
    [script_is_self_scheduling |-> self_scheduling,
     allow_scheduling |-> allow,
     max_delay_scheduling_time |-> max_delay]

SchedConfigs ==
    { Config(Absent, Absent, Absent),
      Config("true", Absent, Absent),
      Config("true", "no", "1800"),
      Config(Absent, "yes", "0"),
      Config("false", "1", "1800") }

Init ==
    /\ variant \in {"lotr", "swgoh"}
    /\ cfg \in SchedConfigs
    /\ now = 0
    /\ queue = schedule_connection_check(schedule_ping(<<>>, 0), 0)
    /\ pc = "start"
    /\ ctx = "start"
    /\ depth = 0
    /\ offers = <<>>
    /\ idx = 0
    /\ purchases = 0
    /\ auth_id = FALSE
    /\ err = ""
    /\ calls = <<>>
    /\ config_instance = "Config"
    /\ lock = "held"
    /\ session_file = "missing"
    /\ session = "fresh"
    /\ max_login_attempts = 0
    /\ inbox = <<>>
    /\ pre_messages_list = <<>>
    /\ polled = 0
    /\ code = <<>>
    /\ snapshots = <<>>
    /\ responses = <<>>
    /\ verify_code = <<>>
    /\ session_saved = FALSE
    /\ cookies = {}
    /\ pickled = NoPickle
    /\ fired = <<>>
    /\ lagged = FALSE
    /\ cwd = <<>>
    /\ ppc = <<>>
    /\ lock_files = {}

Next ==
    \/ start
    \/ EA_run_login
    \/ LotR_run_get_offers
    \/ EA_run_get_offers
    \/ LotR_run_login
    \/ LotR_run_refetch
    \/ LotR_run_offer
    \/ Swgoh_handle_offers_item
    \/ LotR_schedule_run_step
    \/ EA_schedule_run_step
    \/ fire_schedule_ping
    \/ fire_schedule_connection_check
    \/ fire_purchase_offer
    \/ fire_run
    \/ scheduler_run_returns

Spec == Init /\ [][Next]_vars

\* the base connector's SWGOH subclass in self-scheduling mode, under a clock that
\* also moves while an action waits for the store
ClockConfigs == {Config("true", "no", "1800")}

InitClock ==
    /\ Init
    /\ variant = "swgoh"
    /\ cfg \in ClockConfigs

NextClock ==
    \/ start
    \/ EA_run_login
    \/ EA_run_get_offers
    \/ Swgoh_handle_offers_item
    \/ EA_schedule_run_step
    \/ fire_schedule_ping
    \/ fire_schedule_connection_check
    \/ fire_purchase_offer
    \/ fire_run
    \/ get_offers_takes_time

SpecClock == InitClock /\ [][NextClock]_vars

\* a connector of either variant in self-scheduling mode. scheduler.run() sleeps
\* until the head of the queue is due and then calls it, so the turns of its loop
\* are weakly fair.
LiveConfigs == {Config("true", Absent, Absent)}

InitLive ==
    /\ Init
    /\ cfg \in LiveConfigs

NextLive ==
    \/ start
    \/ EA_run_login
    \/ LotR_run_get_offers
    \/ EA_run_get_offers
    \/ LotR_run_login
    \/ LotR_run_refetch
    \/ LotR_run_offer
    \/ Swgoh_handle_offers_item
    \/ LotR_schedule_run_step
    \/ EA_schedule_run_step
    \/ fire_schedule_ping
    \/ fire_schedule_connection_check
    \/ fire_purchase_offer
    \/ fire_run

\* the sale windows of a store item, as <<startTime, endTime>>: open, not yet open,
\* closed
Windows == {<<-10, 100000>>, <<50, 100000>>, <<-10, -5>>}

\* store items of each window whose free offer is available, is on cooldown, or
\* has "availableAtEpoch": null
WindowItems ==
    { StoreItem("X", <<SwgohOffer("FREE", available_at)>>, w[1], w[2]) :
        available_at \in {-5, 1800, None}, w \in Windows }

\* SwgohWebstoreConnector._handle_offers on the store data of the first cycle:
\* run() has logged in and get_offers has returned the items
InitWindow ==
    /\ variant = "swgoh"
    /\ cfg \in SchedConfigs
    /\ now = 0
    /\ queue = schedule_connection_check(schedule_ping(<<>>, 0), 0)
    /\ pc = "handle"
    /\ ctx = "start"
    /\ depth = 0
    /\ offers \in SeqsUpTo(WindowItems, MaxOffers)
    /\ idx = 1
    /\ purchases = 0
    /\ auth_id = TRUE
    /\ err = ""
    /\ calls = <<Call("login", 200, "performed", "", 0), Call("get_offers", 200, "", "", 0)>>
    /\ config_instance = "Config"
    /\ lock = "held"
    /\ session_file = "missing"
    /\ session = "fresh"
    /\ max_login_attempts = 0
    /\ inbox = <<>>
    /\ pre_messages_list = <<>>
    /\ polled = 0
    /\ code = <<>>
    /\ snapshots = <<>>
    /\ responses = <<>>
    /\ verify_code = <<>>
    /\ session_saved = FALSE
    /\ cookies = {}
    /\ pickled = NoPickle
    /\ fired = <<>>
    /\ lagged = FALSE
    /\ cwd = <<>>
    /\ ppc = <<>>
    /\ lock_files = {}

NextWindow ==
    \/ Swgoh_handle_offers_item
    \/ EA_schedule_run_step

SpecWindow == InitWindow /\ [][NextWindow]_vars

\* scheduler.run(): one turn of its loop
SchedulerLoop ==
    \/ fire_schedule_ping
    \/ fire_schedule_connection_check
    \/ fire_purchase_offer
    \/ fire_run

SpecLive == InitLive /\ [][NextLive]_vars /\ WF_vars(SchedulerLoop)

-----------------------------------------------------------------------------
(* Properties of the run cycle and the scheduler *)

Last(sq) == sq[Len(sq)]

ItemOf(e) == e.kwargs.item_id

\* the current run cycle or fired task has made all the calls it will make
Settled == pc \in {"crashed", "loop", "finished"} \/ AtScheduleRun

\* C1: for each itemId at most one Purchase task is queued, in every reachable state.
C1_AtMostOnePurchasePerItem ==
    \A i, j \in PurchaseEntries(queue) :
        i # j => ItemOf(queue[i]) # ItemOf(queue[j])

\* the first get_offers call of the current cycle, 0 if there is none yet
FirstFetch ==
    LET F == {i \in 1..Len(calls) : calls[i].op = "get_offers"}
    IN IF F = {} THEN 0 ELSE Min(F)

CallsAfter(i, op) == {j \in (i + 1)..Len(calls) : calls[j].op = op}

\* C4: a cycle whose offer fetch returned 401 calls login exactly once and fetches
\* again exactly once, the login right after the 401 and the fetch right after the
\* login; a second 401 is fatal with no further login, purchase or scheduling.
C4_Fetch401LoginOnceRefetchOnce ==
    LET f == FirstFetch IN
    (Settled /\ f > 0 /\ calls[f].status = 401) =>
        /\ CallsAfter(f, "login") = {f + 1}
        /\ calls[f + 1].log = "performed" => CallsAfter(f, "get_offers") = {f + 2}
        /\ (calls[f + 1].log = "performed" /\ calls[f + 2].status = 401) =>
              /\ pc = "crashed"
              /\ Len(calls) = f + 2

\* C5: a purchase request that returned 401, in a run cycle or in a fired Purchase
\* task, is followed by a login and by exactly one retry of that purchase.
C5_Purchase401LoginAndRetry ==
    Settled =>
        \A i \in 1..Len(calls) :
            (calls[i].op = "purchase_offer" /\ calls[i].status = 401) =>
                /\ i + 2 <= Len(calls)
                /\ calls[i + 1].op = "login"
                /\ calls[i + 2].op = "purchase_offer"
                /\ calls[i + 2].item = calls[i].item

\* C6: an action fired by the scheduler loop that fails does not end the loop.
C6_FailingActionKeepsLoopAlive ==
    ~(ctx = "sched" /\ pc = "crashed")

\* C7: in delay-scheduling mode schedule_run(False) with no Purchase task queued
\* leaves the queue unchanged.
C7_DelayModeNoFallbackRun ==
    [][ ( /\ AtScheduleRun
          /\ allow_scheduling /\ ~is_self_scheduling
          /\ ~run_directly
          /\ PurchaseEntries(queue) = {} )
        => queue' = queue ]_vars

\* this step called schedule_purchase
CalledSchedulePurchase ==
    /\ Len(calls') = Len(calls) + 1
    /\ Last(calls').op = "schedule_purchase"

\* C10: in delay-scheduling mode with max_delay_scheduling_time = Y > 0, a call of
\* schedule_purchase with a delay X > Y leaves the queue unchanged.
C10_DelayOverMaxNotScheduled ==
    [][ ( /\ CalledSchedulePurchase
          /\ allow_scheduling
          /\ max_delay_scheduling_time > 0
          /\ Last(calls').delay > max_delay_scheduling_time )
        => queue' = queue ]_vars

\* C10 witness: such a call has been made for item X while a Purchase task was queued
C10_Witness ==
    /\ calls # <<>>
    /\ Last(calls).op = "schedule_purchase"
    /\ Last(calls).item = "X"
    /\ allow_scheduling
    /\ max_delay_scheduling_time > 0
    /\ Last(calls).delay > max_delay_scheduling_time
    /\ PurchaseEntries(queue) # {}

RemoveAt(q, k) == SubSeq(q, 1, k - 1) \o SubSeq(q, k + 1, Len(q))

\* the currency a run cycle of this variant passes for a free offer
FreeCurrency == IF variant = "lotr" THEN "PREMIUM" ELSE "FREE"

\* C11: when a scheduling mode is enabled, the maximum-delay rule does not refuse
\* the delay and no Purchase task for the item is queued, a call of
\* schedule_purchase adds exactly one Purchase task at now + delay with payload
\* (item, currency) and changes no other queue entry.
C11_ScheduledAtNowPlusDelay ==
    [][ ( /\ CalledSchedulePurchase
          /\ is_self_scheduling \/ allow_scheduling
          /\ ~( /\ allow_scheduling
                /\ max_delay_scheduling_time > 0
                /\ Last(calls').delay > max_delay_scheduling_time )
          /\ \A i \in PurchaseEntries(queue) : ItemOf(queue[i]) # Last(calls').item )
        => \E k \in 1..Len(queue') :
              /\ queue'[k] = Event(now + Last(calls').delay, 1, "purchase_offer",
                                   PurchaseKwargs(Last(calls').item, FreeCurrency))
              /\ RemoveAt(queue', k) = queue ]_vars

\* the offer the run cycle is handling is free and its price amount is zero
FreeAtZero(o) ==
    IF variant = "lotr"
    THEN o.is_free_offer /\ o.purchase_amount = 0
    ELSE /\ free_offers(o) # <<>>
         /\ Head(free_offers(o)).price = 0

\* this step of a run cycle purchased the offer or handed it to schedule_purchase
HandedOn ==
    /\ pc = "handle"
    /\ idx <= Len(offers)
    /\ Len(calls') = Len(calls) + 1
    /\ Last(calls').op \in {"purchase_offer", "schedule_purchase"}

\* C12: a run cycle purchases an offer or hands it to schedule_purchase only if the
\* offer is free and its price amount is zero.
C12_OnlyFreeAtZeroHandled ==
    [][ HandedOn => FreeAtZero(offers[idx]) ]_vars

\* the time until the offer becomes available, in seconds
Remaining(o) ==
    IF variant = "lotr"
    THEN o.purchase_cooldown_left
    ELSE Head(free_offers(o)).availableAtEpoch - now

\* C13: the delay a run cycle passes to schedule_purchase is the offer's remaining
\* time until it becomes available, in seconds, whatever its length.
C13_DelayIsRemainingTime ==
    [][ (HandedOn /\ Last(calls').op = "schedule_purchase")
        => Last(calls').delay = Remaining(offers[idx]) ]_vars

\* neither scheduling mode is enabled
Manual == ~is_self_scheduling /\ ~allow_scheduling

\* this step enters run()
CycleBegins ==
    /\ pc' = IF variant = "lotr" THEN "get_offers" ELSE "login"
    /\ pc \in {"start", "loop", "handle"}

\* C14: with neither scheduling mode enabled the queue is empty in every state,
\* the only run cycle is the one start() begins (none is nested, none is fired by
\* the scheduler), and once that cycle has returned the scheduler loop returns.
C14_ManualModeSingleShot ==
    /\ [](Manual => (queue = <<>> /\ depth = 0 /\ ctx = "start"))
    /\ [][ Manual =>
             /\ CycleBegins => pc = "start"
             /\ pc' = "start" => pc = "start"
             /\ pc = "loop" => pc' = "finished" ]_vars

\* C14 witness: the cycle has purchased an offer and called schedule_purchase for
\* another, and is about to call schedule_run(True)
C14_Witness ==
    /\ Manual
    /\ AtScheduleRun
    /\ run_directly
    /\ \E i \in 1..Len(calls) : calls[i].op = "schedule_purchase"

\* a call that sent a request and changed the session held in memory: a login that
\* was performed, an offer fetch or a purchase answered with 200
ChangesSession(c) ==
    \/ c.op = "login" /\ c.log = "performed"
    \/ c.op \in {"get_offers", "purchase_offer"} /\ c.status = 200

\* a call that ends in save_session: login alone, through verify_otc or after
\* _perform_login; get_offers and purchase_offer return without it
WritesSessionFile(c) == c.op = "login" /\ c.log = "performed"

\* C20: every call of the cycle or of a fired task that changed the session held in
\* memory has written the session file before it returned, that is, before the next
\* request is sent.
C20_SessionFileFollowsSession ==
    \A j \in 1..Len(calls) : ChangesSession(calls[j]) => WritesSessionFile(calls[j])

\* this step sent an offer fetch or a purchase to the store
StoreCall ==
    /\ calls' # calls
    /\ calls' # <<>>
    /\ Last(calls').op \in {"get_offers", "purchase_offer"}

\* C22: in both variants an offer fetch and a purchase, in the cycle or fired by the
\* scheduler, treat the status of the answer alike: 200 goes on with the payload,
\* 401 is handed to the caller without the operation raising, any other status
\* raises NotImplementedError to the caller; the operation sends one request and
\* calls nothing else.
C22_StatusMapping ==
    [][ StoreCall =>
          LET c == Last(calls') IN
          /\ calls' = Append(calls, c) \/ calls' = <<c>>
          /\ c.status = 200 => pc' # "crashed"
          /\ (c.status = 200 /\ c.op = "get_offers") => offers' \in Snapshots
          /\ c.status = 401 => err' # "NotImplementedError"
          /\ c.status \notin {200, 401} =>
                (pc' = "crashed" /\ err' = "NotImplementedError") ]_vars

\* C22 witness: a purchase fired by the scheduler was answered 401 and the loop
\* goes on
C22_Witness ==
    /\ pc = "loop"
    /\ ctx = "sched"
    /\ Len(calls) = 1
    /\ calls[1].op = "purchase_offer"
    /\ calls[1].status = 401

\* C23: whenever the scheduler loop calls a task, that task is the one whose (time,
\* priority) is least in the queue, it is not ahead of the task called before it,
\* and the clock has reached its time; this holds with tasks entered while the loop
\* runs and after an action that kept the thread waiting.
C23_FiredInOrder ==
    [][ (pc = "loop" /\ queue # <<>>) =>
          /\ fired' = <<Fired(Head(queue), now')>>
          /\ \A i \in 1..Len(queue) : Ahead(Head(queue), queue[i])
          /\ fired # <<>> => Ahead(fired[1], Head(queue))
          /\ now' >= Head(queue).time ]_vars

\* C23 witness: after a slow answer of the store a task was called later than its
\* time, and a task entered by a running action waits behind it
C23_Witness ==
    /\ lagged
    /\ fired # <<>>
    /\ fired[1].started > fired[1].time
    /\ \E i \in 1..Len(queue) : queue[i].time >= fired[1].started + PingDelay

\* this step is schedule_run(False) with a scheduling mode enabled
ScheduleRunFalse ==
    /\ AtScheduleRun
    /\ is_self_scheduling \/ allow_scheduling
    /\ ~run_directly

\* the queue after the step is the queue before it with the one event e entered
\* at position k
EnteredAt(k, e) ==
    /\ k \in 1..Len(queue')
    /\ queue'[k] = e
    /\ RemoveAt(queue', k) = queue

\* the least time of a queued purchase
EarliestPurchaseTime == Min({queue[i].time : i \in PurchaseEntries(queue)})

\* C24: schedule_run(False) with a scheduling mode enabled and a purchase queued
\* enters one run event, 5 s after the earliest queued purchase and behind it in
\* the queue, and changes nothing else of the queue.
C24_RunAfterEarliestPurchase ==
    [][ (ScheduleRunFalse /\ PurchaseEntries(queue) # {}) =>
          \E k \in 1..Len(queue') :
             /\ EnteredAt(k, Event(EarliestPurchaseTime + RunAfterPurchase, 1, "run",
                                   NoKwargs))
             /\ \E i \in 1..(k - 1) :
                   /\ queue'[i].action = "purchase_offer"
                   /\ queue'[i].time = EarliestPurchaseTime ]_vars

\* a run event of the queue
RunEntries(q) == {i \in 1..Len(q) : q[i].action = "run"}

\* C24 witness: two purchases with different times are queued and the cycle has
\* entered the run 5 s after the earlier one
C24_Witness ==
    /\ pc = "loop"
    /\ \E i, j \in PurchaseEntries(queue) : queue[i].time < queue[j].time
    /\ \E r \in RunEntries(queue) :
          queue[r].time = first_purchase(queue).time + RunAfterPurchase

\* C25: in self-scheduling mode schedule_run(False) with no purchase queued enters
\* one run event at now + 3600 and changes nothing else of the queue.
C25_FallbackRunInAnHour ==
    [][ (ScheduleRunFalse /\ is_self_scheduling /\ PurchaseEntries(queue) = {}) =>
          \E k \in 1..Len(queue') :
             EnteredAt(k, Event(now + RunDelay, 1, "run", NoKwargs)) ]_vars

\* C25 witness: a cycle of the self-scheduling mode found nothing to purchase or to
\* schedule and has entered the fallback run
C25_Witness ==
    /\ pc = "loop"
    /\ is_self_scheduling
    /\ PurchaseEntries(queue) = {}
    /\ \E r \in RunEntries(queue) : queue[r].time = now + RunDelay

\* the offer can be purchased now: no cooldown is left, or the item is on sale and
\* its free offer's time of availability has come
NoCooldownLeft(o) ==
    IF variant = "lotr"
    THEN o.purchase_cooldown_left = 0
    ELSE /\ o.startTime <= now
         /\ now <= o.endTime
         /\ Head(free_offers(o)).availableAtEpoch # None
         /\ Head(free_offers(o)).availableAtEpoch <= now

\* the cycle has purchased an offer with success
PurchasedInCycle ==
    \E j \in 1..Len(calls) : calls[j].op = "purchase_offer" /\ calls[j].status = 200

\* C26: a run cycle that comes to a free offer of price zero with no cooldown left
\* purchases it in that step, without the queue; a cycle that has purchased calls
\* schedule_run(True), and with a scheduling mode enabled that call enters run()
\* at once, nested (while the stack has room), and enters nothing into the queue.
C26_PurchaseNowThenRunDirectly ==
    /\ [][(pc = "handle" /\ idx <= Len(offers)) =>
            ((FreeAtZero(offers[idx]) /\ NoCooldownLeft(offers[idx])) =>
                (/\ calls' = Append(calls, Last(calls'))
                 /\ Last(calls').op = "purchase_offer"
                 /\ Last(calls').item = offers[idx].id
                 /\ queue' = queue))]_vars
    /\ [][(AtScheduleRun /\ PurchasedInCycle /\ ~Manual) =>
            (/\ queue' = queue
             /\ depth < MaxDepth => (CycleBegins /\ depth' = depth + 1))]_vars

\* C26 witness: a cycle purchased an offer, schedule_run(True) ran the next cycle
\* nested, and that cycle has fetched its offers with no run event in the queue
C26_Witness ==
    /\ depth = 1
    /\ pc = "handle"
    /\ ~Manual
    /\ RunEntries(queue) = {}

PingEntries(q) == {i \in 1..Len(q) : q[i].action = "schedule_ping"}

CheckEntries(q) == {i \in 1..Len(q) : q[i].action = "schedule_connection_check"}

\* no action is running: the connector is constructed and start() not yet called,
\* or the scheduler loop is between two tasks
NoActionRunning == pc \in {"start", "loop"}

\* C27: outside the self-scheduling mode neither a ping nor a connection check is
\* ever queued, from construction on; in the self-scheduling mode, whenever no
\* action is running, the queue holds exactly one ping, due at most 60 s ahead, and
\* exactly one connection check, due at most 1800 s ahead.
C27_StandingTasks ==
    /\ ~is_self_scheduling =>
          (PingEntries(queue) = {} /\ CheckEntries(queue) = {})
    /\ (is_self_scheduling /\ NoActionRunning) =>
          /\ Cardinality(PingEntries(queue)) = 1
          /\ Cardinality(CheckEntries(queue)) = 1
          /\ \A i \in PingEntries(queue) : queue[i].time - now <= PingDelay
          /\ \A i \in CheckEntries(queue) : queue[i].time - now <= ConnectionCheckDelay

\* C27 witness: the loop has called the first connection check, which entered
\* itself again, and pings have been called before it
C27_Witness ==
    /\ is_self_scheduling
    /\ pc = "loop"
    /\ now >= ConnectionCheckDelay
    /\ \E i \in CheckEntries(queue) : queue[i].time = now + ConnectionCheckDelay
    /\ \E i \in PingEntries(queue) : queue[i].time > ConnectionCheckDelay

\* C28: every call of the connection check by the scheduler loop, whatever its
\* probe does, enters the check again 1800 s after the clock of the call and
\* changes nothing else of the queue, records the probe's outcome, and leaves the
\* loop running: no exception reaches the scheduler.
C28_ConnectionCheckAlwaysReenters ==
    [][ Due("schedule_connection_check") =>
          /\ \E k \in 1..Len(queue') :
                /\ queue'[k] = Event(now' + ConnectionCheckDelay, 1,
                                     "schedule_connection_check", NoKwargs)
                /\ RemoveAt(queue', k) = Tail(queue)
          /\ calls' = <<Call("connection_check", 0, calls'[1].log, "", 0)>>
          /\ calls'[1].log \in Probes
          /\ pc' = "loop"
          /\ err' = "" ]_vars

\* C28 witness: the probe of a connection check timed out, the check is queued
\* again and the loop goes on
C28_Witness ==
    /\ pc = "loop"
    /\ calls = <<Call("connection_check", 0, "Timeout", "", 0)>>
    /\ \E i \in CheckEntries(queue) : queue[i].time = now + ConnectionCheckDelay

\* C30: with self-scheduling or delay-scheduling enabled start() never returns:
\* scheduler.run() never finds the queue empty, for both modes and both variants.
C30_StartNeverReturns ==
    (is_self_scheduling \/ allow_scheduling) => pc # "finished"

\* a run cycle is under way and has not reached the end of schedule_run
InCycle == pc \in {"login", "get_offers", "relogin", "refetch", "handle"}

\* C34: at most one run event is queued in every reachable state; while a cycle is
\* under way, re-runs included, none is: the loop removed the one that started it,
\* and the cycle enters its one run at its end.
C34_AtMostOneRunQueued ==
    /\ Cardinality(RunEntries(queue)) <= 1
    /\ InCycle => RunEntries(queue) = {}

\* C34 witness: the loop called a queued run, and its cycle has returned with the
\* next run entered an hour ahead
C34_Witness ==
    /\ pc = "loop"
    /\ ctx = "sched"
    /\ fired # <<>>
    /\ now = fired[1].time
    /\ \E r \in RunEntries(queue) : queue[r].time = fired[1].time + RunDelay

\* the item ids of the offers the model's store sells
ItemIds == {"X", "item_id"}

\* a purchase of the item is queued for a time the model follows
PurchaseQueued(item_id) ==
    \E i \in PurchaseEntries(queue) :
       ItemOf(queue[i]) = item_id /\ queue[i].time <= MaxTime

\* the loop has just called the queued purchase of the item: one request was sent
PurchaseSent(item_id) ==
    /\ pc \in {"loop", "crashed"}
    /\ ctx = "sched"
    /\ Len(calls) = 1
    /\ calls[1].op = "purchase_offer"
    /\ calls[1].item = item_id

\* the loop is about to call a purchase
PurchaseIsNext == pc = "loop" /\ queue # <<>> /\ Head(queue).action = "purchase_offer"

\* C36: the call of a queued purchase takes its event out of the queue, happens at
\* or after the event's time and sends one purchase request, for the event's item;
\* a purchase event leaves the queue in no other way; and while no action raises,
\* a queued purchase is eventually called.
C36_PurchaseFiresOnce ==
    /\ [][PurchaseIsNext =>
            (/\ now' >= Head(queue).time
             /\ queue' = Tail(queue)
             /\ \E item_id \in ItemIds :
                   item_id = ItemOf(Head(queue)) /\ PurchaseSent(item_id)')]_vars
    /\ [][\A i \in PurchaseEntries(queue) :
            (i > 1 \/ pc # "loop") =>
               \E j \in PurchaseEntries(queue') : queue'[j] = queue[i]]_vars
    /\ (pc = "loop" /\ \E item_id \in ItemIds : PurchaseQueued(item_id))
          ~> (pc = "crashed" \/ \E item_id \in ItemIds : PurchaseSent(item_id))

\* C36 witness: the loop waited for a queued purchase, called it at its time,
\* later than the cycle that queued it, and went on
C36_Witness ==
    /\ is_self_scheduling
    /\ PurchaseSent("X")
    /\ pc = "loop"
    /\ calls[1].status = 200
    /\ fired # <<>>
    /\ fired[1].started >= fired[1].time
    /\ fired[1].time > 0

\* _handle_offers is at an item that has a free offer
AtFreeItem == pc = "handle" /\ idx <= Len(offers) /\ free_offers(offers[idx]) # <<>>

\* the sale of the item has not begun or is over
OutsideWindow(item) == now < item.startTime \/ item.endTime < now

\* C38: the SWGOH handler passes over an item outside its sale window without a
\* purchase and without a call of schedule_purchase, whatever the availability
\* time of its free offer, and it handles an item inside its window whose free
\* offer has no availability time without raising.
C38_WindowRespected ==
    [][AtFreeItem =>
        /\ OutsideWindow(offers[idx]) =>
              (/\ UNCHANGED <<queue, calls, purchases, pc, err>>
               /\ idx' = idx + 1)
        /\ (/\ ~OutsideWindow(offers[idx])
            /\ Head(free_offers(offers[idx])).availableAtEpoch = None) =>
              pc' # "crashed"]_vars

\* the handler passes over an item whose sale has not begun or is over
ClosedWindowSkipped ==
    [][(AtFreeItem /\ OutsideWindow(offers[idx])) =>
            (/\ UNCHANGED <<queue, calls, purchases, pc, err>>
             /\ idx' = idx + 1)]_vars

\* C35: with a scheduling mode enabled the chain of re-runs that schedule_run(True)
\* starts comes to an end and the top-level cycle returns, whatever snapshots the
\* store answers after a purchase: the chain never uses up the stack.
C35_RerunChainReturns ==
    ~Manual => err # "RecursionError"

\* a top-level run cycle has returned to the scheduler loop
CycleCompleted == pc = "loop"

\* the loop has just called a queued run: its cycle begins
RunFired ==
    /\ ctx = "sched"
    /\ depth = 0
    /\ calls = <<>>
    /\ pc = IF variant = "lotr" THEN "get_offers" ELSE "login"

\* the head of the queue is due after the last time the model follows
Horizon == queue # <<>> /\ Head(queue).time > MaxTime

\* a run event is queued, due at most 3600 s ahead or 5 s after the earliest
\* queued purchase
RunQueued ==
    \E r \in RunEntries(queue) :
       \/ queue[r].time <= now + RunDelay
       \/ /\ PurchaseEntries(queue) # {}
          /\ queue[r].time = EarliestPurchaseTime + RunAfterPurchase

-----------------------------------------------------------------------------
(* Start-up. cli.main loads the global configuration, takes the lock file and
   constructs a LotRWebstoreConnector with the loaded Config. The base connector
   has no entry point in the repository: its caller constructs it with the path
   of a configuration file, which __init__ loads. *)

\* getboolean on the option's raw value: the fallback when the option is absent,
\* ValueError when the value is no boolean word
Readable(raw) == raw = Absent \/ IsBooleanWord(raw)

\* a validation that reads both options and accepts every readable pair
valiate_unchecked ==
    IF ~Readable(cfg.script_is_self_scheduling) THEN "ValueError"
    ELSE IF is_self_scheduling /\ ~Readable(cfg.allow_scheduling) THEN "ValueError"
    ELSE ""

\* Config.valiate: the exception it raises, "" if it returns. "a and b" reads
\* allow_scheduling only when is_self_scheduling is true.
valiate ==
    IF ~Readable(cfg.script_is_self_scheduling) THEN "ValueError"
    ELSE IF ~is_self_scheduling THEN ""
    ELSE IF ~Readable(cfg.allow_scheduling) THEN "ValueError"
    ELSE IF allow_scheduling THEN "SchedulingConflictError"
    ELSE ""

\* Config.load_global_config(args.config): cls._instance = cls.load_config(file_path)
load_global_config ==
    /\ pc = "main"
    /\ variant = "lotr"
    /\ IF valiate = ""
       THEN /\ config_instance' = "Config"
            /\ pc' = "lock"
            /\ UNCHANGED err
       ELSE /\ Raise(valiate)
            /\ UNCHANGED config_instance
    /\ UNCHANGED <<variant, cfg, now, queue, ctx, depth, offers, idx, purchases,
                   auth_id, calls>>
    /\ UNCHANGED <<lock, session_file, session>>
    /\ UNCHANGED <<loginVars, sessVars, histVars, procVars>>

\* LockFile(...): LockError when another process holds it, then sys.exit(1)
LockFile ==
    /\ pc = "lock"
    /\ IF lock = "free"
       THEN /\ lock' = "held"
            /\ pc' = "construct"
            /\ UNCHANGED err
       ELSE /\ pc' = "exited"
            /\ err' = "SystemExit(1)"
            /\ UNCHANGED lock
    /\ UNCHANGED <<variant, cfg, now, queue, ctx, depth, offers, idx, purchases,
                   auth_id, calls>>
    /\ UNCHANGED <<config_instance, session_file, session>>
    /\ UNCHANGED <<loginVars, sessVars, histVars, procVars>>

\* load_session: pickle.load raises on a file that is no pickle of a session
load_session == IF session_file = "valid" THEN "" ELSE "UnpicklingError"

\* the end of __init__: schedule_ping() and schedule_connection_check(), which
\* probes the connection when the mode is self-scheduling
construct_tasks ==
    /\ queue' = schedule_connection_check(schedule_ping(<<>>, now), now)
    /\ \E probe \in Probes :
          IF is_self_scheduling /\ connection_check(probe) # ""
          THEN Raise(connection_check(probe))
          ELSE /\ pc' = "start"
               /\ UNCHANGED err

\* __init__ of either connector, from "self.session = Session()" on: load_session
\* when the file exists, then schedule_ping and schedule_connection_check
LotR___init__ ==
    /\ pc = "construct"
    /\ variant = "lotr"
    /\ IF session_file = "missing"
       THEN /\ session' = "fresh"
            /\ construct_tasks
       ELSE IF load_session = ""
       THEN /\ session' = "loaded"
            /\ construct_tasks
       ELSE /\ Raise(load_session)
            /\ session' = "fresh"
            /\ UNCHANGED queue
    /\ UNCHANGED <<variant, cfg, now, ctx, depth, offers, idx, purchases, auth_id, calls>>
    /\ UNCHANGED <<config_instance, lock, session_file>>
    /\ UNCHANGED <<loginVars, sessVars, histVars, procVars>>

\* EAWebstoreConnector.__init__(email, config) with config a file path:
\* Config.load_config(config) validates it, then as above
EA___init__ ==
    /\ pc = "construct"
    /\ variant = "swgoh"
    /\ IF valiate # ""
       THEN /\ Raise(valiate)
            /\ UNCHANGED <<config_instance, session, queue>>
       ELSE /\ config_instance' = "Config"
            /\ IF session_file = "missing"
               THEN /\ session' = "fresh"
                    /\ construct_tasks
               ELSE IF load_session = ""
               THEN /\ session' = "loaded"
                    /\ construct_tasks
               ELSE /\ Raise(load_session)
                    /\ session' = "fresh"
                    /\ UNCHANGED queue
    /\ UNCHANGED <<variant, cfg, now, ctx, depth, offers, idx, purchases, auth_id, calls>>
    /\ UNCHANGED <<lock, session_file>>
    /\ UNCHANGED <<loginVars, sessVars, histVars, procVars>>

BoolWords == {Absent, "True", "YES", "1", "Off", "no", "maybe"}

InitialPc == IF variant = "lotr" THEN "main" ELSE "construct"

InitBoot ==
    /\ variant \in {"lotr", "swgoh"}
    /\ cfg \in [script_is_self_scheduling : BoolWords,
                allow_scheduling : BoolWords,
                max_delay_scheduling_time : {Absent} \cup IntWords]
    /\ now = 0
    /\ queue = <<>>
    /\ pc = InitialPc
    /\ ctx = "start"
    /\ depth = 0
    /\ offers = <<>>
    /\ idx = 0
    /\ purchases = 0
    /\ auth_id = FALSE
    /\ err = ""
    /\ calls = <<>>
    /\ config_instance = "None"
    /\ lock \in IF variant = "lotr" THEN {"free", "other"} ELSE {"free"}
    /\ session_file \in {"missing", "valid", "corrupt"}
    /\ session = "fresh"
    /\ max_login_attempts = 0
    /\ inbox = <<>>
    /\ pre_messages_list = <<>>
    /\ polled = 0
    /\ code = <<>>
    /\ snapshots = <<>>
    /\ responses = <<>>
    /\ verify_code = <<>>
    /\ session_saved = FALSE
    /\ cookies = {}
    /\ pickled = NoPickle
    /\ fired = <<>>
    /\ lagged = FALSE
    /\ cwd = <<>>
    /\ ppc = <<>>
    /\ lock_files = {}

NextBoot ==
    \/ load_global_config
    \/ LockFile
    \/ LotR___init__
    \/ EA___init__

SpecBoot == InitBoot /\ [][NextBoot]_vars

\* both options hold a word that configparser reads as true
BothTrue ==
    /\ Lower(cfg.script_is_self_scheduling) \in TrueWords
    /\ Lower(cfg.allow_scheduling) \in TrueWords

\* C8: constructing a connector whose session file is corrupt or missing does not
\* raise: the connector is constructed and holds a fresh session.
C8_BadSessionFileTreatedAsAbsent ==
    ( /\ config_instance = "Config"
      /\ pc \in {"start", "crashed"}
      /\ session_file \in {"corrupt", "missing"} ) =>
        /\ pc = "start"
        /\ session = "fresh"

\* C9: loading a configuration with script_is_self_scheduling and allow_scheduling
\* both true raises SchedulingConflictError and yields no Config, whatever the other
\* options are; no connector is constructed with both flags true.
C9_ConflictRejectedAtLoad ==
    /\ BothTrue =>
          /\ config_instance = "None"
          /\ pc # InitialPc => (pc = "crashed" /\ err = "SchedulingConflictError")
    /\ pc = "start" => ~(is_self_scheduling /\ allow_scheduling)

\* C9 witness: the load of a conflicting configuration that also sets the maximum
\* delay has raised
C9_Witness ==
    /\ BothTrue
    /\ cfg.max_delay_scheduling_time = "1800"
    /\ pc = "crashed"
    /\ err = "SchedulingConflictError"

-----------------------------------------------------------------------------
(* login: the one-time code is read from the mailbox *)

\* text is kept as a sequence of tokens: "x in text" is membership of a token,
\* a regular expression reads the tokens from the left
Email == "user@example.com"

Prefix == "Verification Code For EA"

Digits == {"0", "1", "2", "3", "4", "5", "6", "7", "8", "9"}

Contains(token, text) == \E i \in 1..Len(text) : text[i] = token

\* EA_SUBJECT_PATTERN.match(subject)[1], <<>> when there is no match:
\* ^Verification Code For EA[^0-9]*([0-9]+)$
Match(subject) ==
    IF subject = <<>> \/ Head(subject) # Prefix THEN <<>>
    ELSE LET rest == Tail(subject)
             digitAt == {i \in 1..Len(rest) : rest[i] \in Digits}
         IN  IF digitAt = {} THEN <<>>
             ELSE LET first == Min(digitAt)
                  IN  IF \A i \in first..Len(rest) : rest[i] \in Digits
                      THEN SubSeq(rest, first, Len(rest))
                      ELSE <<>>

\* a message as get_message_details returns it; <<>> is a header that is not there
Message(receiver, subject) == [receiver |-> receiver, subject |-> subject]

Mails ==
    { Message(<<Email>>, <<Prefix, ":", " ", "1", "2">>),
      Message(<<"Player <", Email, ">">>, <<Prefix, " ", "7">>),
      Message(<<"other@example.com">>, <<Prefix, ":", " ", "3", "4">>),
      Message(<<Email>>, <<Prefix, ":", " ", "5", " ", "6">>),
      Message(<<>>, <<"Re: ", Prefix, " ", "8">>) }

\* get_messages(): the ids of the first n messages, newest first
List(n) == [i \in 1..n |-> n - i + 1]

\* what messages().list does: it raises HttpError, or it answers; deleted are the
\* messages that are no longer in the mailbox
Response(http_error, deleted) == [HttpError |-> http_error, deleted |-> deleted]

Answers == Response(FALSE, {})

\* the [] that GmailConnector.get_messages returns on HttpError: a list, which has
\* no attribute "messages"; 0 is the id of no message
Failed == <<0>>

\* GmailConnector.get_messages() at the k-th listing of the login: the ids of
\* GmailMessageListResponse.messages, newest first
get_messages(k) ==
    IF responses[k].HttpError THEN Failed
    ELSE SelectSeq(List(snapshots[k]), LAMBDA id : id \notin responses[k].deleted)

\* the id of messages[0], 0 when there is none
NewestId(listing) == IF listing = <<>> THEN 0 ELSE Head(listing)

\* "new_messages_list.messages[0].id != pre_messages_list.messages[0].id": the
\* exception the comparison raises, "" if it has a value
has_new_messages_error(new_messages_list, baseline) ==
    IF new_messages_list = Failed THEN "AttributeError"
    ELSE IF new_messages_list = <<>> THEN "IndexError"
    ELSE IF baseline = Failed THEN "AttributeError"
    ELSE IF baseline = <<>> THEN "IndexError"
    ELSE ""

\* get_code_from_message(message_id), <<>> for None
get_code_from_message(message_id) ==
    LET message == inbox[message_id]
    IN  IF message.receiver = <<>> \/ message.subject = <<>> THEN <<>>
        ELSE IF ~Contains(Email, message.receiver) THEN <<>>
        ELSE Match(message.subject)

\* a scan of the whole listing, the baseline and what is older included
scan_past_baseline(entries, baseline_id) ==
    LET hits == {i \in 1..Len(entries) : get_code_from_message(entries[i]) # <<>>}
    IN  IF hits = {} THEN <<>>
        ELSE get_code_from_message(entries[Min(hits)])

\* "for entry in new_messages_list.messages": stop at the baseline's newest id,
\* stop at the first code
RECURSIVE scan(_, _)
scan(entries, baseline_id) ==
    IF entries = <<>> THEN <<>>
    ELSE IF Head(entries) = baseline_id THEN <<>>
    ELSE LET found == get_code_from_message(Head(entries))
         IN  IF found # <<>> THEN found
             ELSE scan(Tail(entries), baseline_id)

\* the entries that loop passes to get_code_from_message, in order
RECURSIVE scanned(_, _)
scanned(entries, baseline_id) ==
    IF entries = <<>> THEN <<>>
    ELSE IF Head(entries) = baseline_id THEN <<>>
    ELSE IF get_code_from_message(Head(entries)) # <<>> THEN <<Head(entries)>>
    ELSE <<Head(entries)>> \o scanned(Tail(entries), baseline_id)

\* history of one login: a request or a call, its HTTP status (0 if it has none)
\* and the message id it is about (for get_messages the newest id listed, 0 if none)
Step(op, status, id) == [op |-> op, status |-> status, id |-> id]

Inspections(ids) == [i \in 1..Len(ids) |-> Step("get_code_from_message", 0, ids[i])]

\* a pass of the polling loop that leaves pre_messages_list as it is
poll_once_keeping_baseline ==
    LET new_messages_list == get_messages(polled + 2)
        listed == Step("get_messages", 0, NewestId(new_messages_list))
        raised == has_new_messages_error(new_messages_list, pre_messages_list)
    IN  /\ polled' = polled + 1
        /\ UNCHANGED pre_messages_list
        /\ IF raised # ""
           THEN /\ Raise(raised)
                /\ calls' = Append(calls, listed)
                /\ UNCHANGED code
           ELSE IF Head(new_messages_list) = Head(pre_messages_list)
           THEN /\ calls' = Append(calls, listed)
                /\ UNCHANGED <<pc, err, code>>
           ELSE /\ code' = scan(new_messages_list, Head(pre_messages_list))
                /\ calls' = Append(calls, listed) \o
                      Inspections(scanned(new_messages_list, Head(pre_messages_list)))
                /\ UNCHANGED <<pc, err>>

\* one pass of "for _ in range(0, max_login_attempts)" in LotRWebstoreConnector.login
poll_once ==
    LET new_messages_list == get_messages(polled + 2)
        listed == Step("get_messages", 0, NewestId(new_messages_list))
        raised == has_new_messages_error(new_messages_list, pre_messages_list)
    IN  /\ polled' = polled + 1
        /\ IF raised # ""
           THEN /\ Raise(raised)
                /\ calls' = Append(calls, listed)
                /\ UNCHANGED <<code, pre_messages_list>>
           ELSE IF Head(new_messages_list) = Head(pre_messages_list)
           THEN /\ calls' = Append(calls, listed)
                /\ UNCHANGED <<pc, err, code, pre_messages_list>>
           ELSE /\ code' = scan(new_messages_list, Head(pre_messages_list))
                /\ calls' = Append(calls, listed) \o
                      Inspections(scanned(new_messages_list, Head(pre_messages_list)))
                /\ pre_messages_list' = new_messages_list
                /\ UNCHANGED <<pc, err>>

\* one pass of the loop of EAWebstoreConnector._get_code_from_gmail_account:
\* "if not new_messages_list: continue" (the [] of a failed listing; a
\* GmailMessageListResponse is true whatever it holds), then as above
EA_poll_once ==
    IF get_messages(polled + 2) = Failed
    THEN /\ polled' = polled + 1
         /\ calls' = Append(calls, Step("get_messages", 0, 0))
         /\ UNCHANGED <<pc, err, code, pre_messages_list>>
    ELSE poll_once

\* a loop without the "break"
LoopDone_without_break == polled = max_login_attempts

\* the loop has ended: by "break" on a code, or by exhausting its range
LoopDone == code # <<>> \/ polled = max_login_attempts

OtherStatuses == {200, 500}

\* a request whose answer is taken whatever its status
unchecked(status) == ""

\* request_otc: the exception it raises, "" if it returns
request_otc(status) == IF status # 200 THEN "NotImplementedError" ELSE ""

\* verify_otc up to save_session: the exception it raises, "" if it goes on to save
verify_otc(status) == IF status # 200 THEN "NotImplementedError" ELSE ""

\* LotRWebstoreConnector.login with the request made before the baseline is listed
LotR_login_request_before_baseline ==
    /\ pc = "login"
    /\ variant = "lotr"
    /\ pre_messages_list' = get_messages(1)
    /\ \E status \in OtherStatuses :
          /\ calls' = calls \o <<Step("request_otc", status, 0),
                                 Step("get_messages", 0, NewestId(get_messages(1)))>>
          /\ IF request_otc(status) = ""
             THEN /\ pc' = "poll"
                  /\ ctx' = "poll"
                  /\ UNCHANGED err
             ELSE /\ Raise(request_otc(status))
                  /\ UNCHANGED ctx
    /\ UNCHANGED <<variant, cfg, now, queue, depth, offers, idx, purchases, auth_id>>
    /\ UNCHANGED <<max_login_attempts, inbox, polled, code, snapshots, responses, verify_code,
                   session_saved>>
    /\ UNCHANGED <<bootVars, sessVars, histVars, procVars>>

\* LotRWebstoreConnector.login up to the loop: the baseline listing, request_otc
LotR_login_request_otc ==
    /\ pc = "login"
    /\ variant = "lotr"
    /\ pre_messages_list' = get_messages(1)
    /\ \E status \in OtherStatuses :
          /\ calls' = calls \o <<Step("get_messages", 0, NewestId(get_messages(1))),
                                 Step("request_otc", status, 0)>>
          /\ IF request_otc(status) = ""
             THEN /\ pc' = "poll"
                  /\ ctx' = "poll"
                  /\ UNCHANGED err
             ELSE /\ Raise(request_otc(status))
                  /\ UNCHANGED ctx
    /\ UNCHANGED <<variant, cfg, now, queue, depth, offers, idx, purchases, auth_id>>
    /\ UNCHANGED <<max_login_attempts, inbox, polled, code, snapshots, responses, verify_code,
                   session_saved>>
    /\ UNCHANGED <<bootVars, sessVars, histVars, procVars>>

LotR_login_poll ==
    /\ pc = "poll"
    /\ variant = "lotr"
    /\ ~LoopDone
    /\ poll_once
    /\ UNCHANGED <<variant, cfg, now, queue, ctx, depth, offers, idx, purchases, auth_id>>
    /\ UNCHANGED <<max_login_attempts, inbox, snapshots, responses, verify_code, session_saved>>
    /\ UNCHANGED <<bootVars, sessVars, histVars, procVars>>

\* after the loop: ValueError without a code, else verify_otc(code) and save_session
LotR_login_verify_otc ==
    /\ pc = "poll"
    /\ variant = "lotr"
    /\ LoopDone
    /\ IF code = <<>>
       THEN /\ Raise("ValueError")
            /\ UNCHANGED <<ctx, verify_code, session_saved, calls>>
       ELSE /\ verify_code' = Append(verify_code, code)
            /\ ctx' = "verify"
            /\ \E status \in OtherStatuses :
                  IF verify_otc(status) = ""
                  THEN /\ session_saved' = TRUE
                       /\ calls' = calls \o <<Step("verify_otc", status, 0),
                                              Step("save_session", 0, 0)>>
                       /\ pc' = "logged_in"
                       /\ UNCHANGED err
                  ELSE /\ Raise(verify_otc(status))
                       /\ calls' = Append(calls, Step("verify_otc", status, 0))
                       /\ UNCHANGED session_saved
    /\ UNCHANGED <<variant, cfg, now, queue, depth, offers, idx, purchases, auth_id>>
    /\ UNCHANGED <<max_login_attempts, inbox, pre_messages_list, polled, code, snapshots, responses>>
    /\ UNCHANGED <<bootVars, sessVars, histVars, procVars>>

\* EAWebstoreConnector.login up to _perform_login: the accounts URL answers with the
\* sign-in page, or redirects with a code when the account is still signed in
EA_login ==
    /\ pc = "login"
    /\ variant = "swgoh"
    /\ ~auth_id
    /\ \E status \in OtherStatuses, code_in_url \in BOOLEAN :
          /\ calls' = Append(calls, Step("auth", status, 0))
          /\ IF status # 200 THEN Raise("Exception")
             ELSE /\ pc' = IF code_in_url THEN "finish" ELSE "signin"
                  /\ UNCHANGED err
    /\ UNCHANGED <<variant, cfg, now, queue, ctx, depth, offers, idx, purchases, auth_id>>
    /\ UNCHANGED loginVars
    /\ UNCHANGED <<bootVars, sessVars, histVars, procVars>>

\* _perform_login up to the loop: the sign-in page, the baseline listing, the email
EA_perform_login ==
    /\ pc = "signin"
    /\ \E page \in OtherStatuses, submit \in OtherStatuses :
          IF page # 200
          THEN /\ Raise("Exception")
               /\ calls' = Append(calls, Step("signin", page, 0))
               /\ UNCHANGED <<ctx, pre_messages_list>>
          ELSE /\ pre_messages_list' = get_messages(1)
               /\ calls' = calls \o <<Step("signin", page, 0),
                                      Step("get_messages", 0, NewestId(get_messages(1))),
                                      Step("submit_email", submit, 0)>>
               /\ IF submit # 200
                  THEN /\ Raise("Exception")
                       /\ UNCHANGED ctx
                  ELSE /\ pc' = "poll"
                       /\ ctx' = "poll"
                       /\ UNCHANGED err
    /\ UNCHANGED <<variant, cfg, now, queue, depth, offers, idx, purchases, auth_id>>
    /\ UNCHANGED <<max_login_attempts, inbox, polled, code, snapshots, responses, verify_code,
                   session_saved>>
    /\ UNCHANGED <<bootVars, sessVars, histVars, procVars>>

EA_get_code_from_gmail_account ==
    /\ pc = "poll"
    /\ variant = "swgoh"
    /\ ~LoopDone
    /\ EA_poll_once
    /\ UNCHANGED <<variant, cfg, now, queue, ctx, depth, offers, idx, purchases, auth_id>>
    /\ UNCHANGED <<max_login_attempts, inbox, snapshots, responses, verify_code, session_saved>>
    /\ UNCHANGED <<bootVars, sessVars, histVars, procVars>>

\* what input("Enter the code: ") returns; it raises EOFError when stdin is closed
TypedCodes == {<<"9">>}

\* _perform_login after the loop: without a code it asks the terminal for one, then
\* posts the code and reads the code of the redirect
EA_perform_login_submit_code ==
    /\ pc = "poll"
    /\ variant = "swgoh"
    /\ LoopDone
    /\ LET asked == IF code = <<>> THEN <<Step("input", 0, 0)>> ELSE <<>> IN
       \/ /\ code = <<>>
          /\ Raise("EOFError")
          /\ calls' = calls \o asked
          /\ UNCHANGED <<ctx, code, verify_code>>
       \/ /\ \E typed \in TypedCodes : code' = IF code = <<>> THEN typed ELSE code
          /\ verify_code' = Append(verify_code, code')
          /\ ctx' = "verify"
          /\ \E status \in OtherStatuses, code_in_url \in BOOLEAN :
                IF status # 200
                THEN /\ Raise("Exception")
                     /\ calls' = calls \o asked \o <<Step("submit_code", status, 0)>>
                ELSE IF ~code_in_url
                THEN /\ Raise("Exception")
                     /\ calls' = calls \o asked \o <<Step("submit_code", status, 0)>>
                ELSE /\ pc' = "finish"
                     /\ calls' = calls \o asked \o <<Step("submit_code", status, 0),
                                                     Step("redirect_code", 0, 0)>>
                     /\ UNCHANGED err
    /\ UNCHANGED <<variant, cfg, now, queue, depth, offers, idx, purchases, auth_id>>
    /\ UNCHANGED <<max_login_attempts, inbox, pre_messages_list, polled, snapshots, responses,
                   session_saved>>
    /\ UNCHANGED <<bootVars, sessVars, histVars, procVars>>

\* _finish_login and, when _perform_login ran, save_session
EA__finish_login ==
    /\ pc = "finish"
    /\ \E has_auth_id \in BOOLEAN :
          IF has_auth_id
          THEN /\ auth_id' = TRUE
               /\ session_saved' = (verify_code # <<>>)
               /\ calls' = calls \o <<Step("access_code", 200, 0)>> \o
                     (IF verify_code # <<>> THEN <<Step("save_session", 0, 0)>> ELSE <<>>)
               /\ pc' = "logged_in"
               /\ UNCHANGED err
          ELSE /\ Raise("KeyError")
               /\ calls' = Append(calls, Step("access_code", 200, 0))
               /\ UNCHANGED <<auth_id, session_saved>>
    /\ UNCHANGED <<variant, cfg, now, queue, ctx, depth, offers, idx, purchases>>
    /\ UNCHANGED <<max_login_attempts, inbox, pre_messages_list, polled, code, snapshots, responses,
                   verify_code>>
    /\ UNCHANGED <<bootVars, sessVars, histVars, procVars>>

\* the listings of a login that polls m times in a mailbox that ends with n
\* messages: mail is only ever added
Listings(n, m) ==
    {f \in [1..(m + 1) -> 0..n] :
        /\ f[m + 1] = n
        /\ \A i \in 1..m : f[i] <= f[i + 1]}

InitLogin ==
    /\ variant \in {"lotr", "swgoh"}
    /\ cfg = Config(Absent, Absent, Absent)
    /\ now = 0
    /\ queue = schedule_connection_check(schedule_ping(<<>>, 0), 0)
    /\ pc = "login"
    /\ ctx = "login"
    /\ depth = 0
    /\ offers = <<>>
    /\ idx = 0
    /\ purchases = 0
    /\ auth_id = FALSE
    /\ err = ""
    /\ calls = <<>>
    /\ config_instance = "Config"
    /\ lock = "held"
    /\ session_file = "missing"
    /\ session = "fresh"
    /\ max_login_attempts \in 0..MaxLoginAttempts
    /\ inbox \in SeqsUpTo(Mails, MaxMail)
    /\ snapshots \in Listings(Len(inbox), max_login_attempts)
    /\ responses = [k \in 1..(max_login_attempts + 1) |-> Answers]
    /\ pre_messages_list = <<>>
    /\ polled = 0
    /\ code = <<>>
    /\ verify_code = <<>>
    /\ session_saved = FALSE
    /\ cookies = {}
    /\ pickled = NoPickle
    /\ fired = <<>>
    /\ lagged = FALSE
    /\ cwd = <<>>
    /\ ppc = <<>>
    /\ lock_files = {}

NextLogin ==
    \/ LotR_login_request_otc
    \/ LotR_login_poll
    \/ LotR_login_verify_otc
    \/ EA_login
    \/ EA_perform_login
    \/ EA_get_code_from_gmail_account
    \/ EA_perform_login_submit_code
    \/ EA__finish_login

SpecLogin == InitLogin /\ [][NextLogin]_vars

\* a login in a mailbox whose listings can fail and from which the newest message
\* of the baseline can be deleted while the login polls
MailboxMails ==
    { Message(<<Email>>, <<Prefix, ":", " ", "1", "2">>),
      Message(<<"Player <", Email, ">">>, <<Prefix, " ", "7">>),
      Message(<<"other@example.com">>, <<Prefix, ":", " ", "3", "4">>) }

\* the responses to the m + 1 listings of a login: at most one listing fails; the
\* newest message of the baseline is in every listing or in none after the baseline
Responses(sizes, m) ==
    {f \in [1..(m + 1) -> {Response(e, d) : e \in BOOLEAN, d \in {{}, {sizes[1]}}}] :
        /\ Cardinality({k \in 1..(m + 1) : f[k].HttpError}) <= 1
        /\ f[1].deleted = {}
        /\ \A k \in 2..(m + 1) : f[k].deleted = f[m + 1].deleted
        /\ \A k \in 1..(m + 1) : f[k].deleted \subseteq 1..sizes[1]}

InitMailbox ==
    /\ variant \in {"lotr", "swgoh"}
    /\ cfg = Config(Absent, Absent, Absent)
    /\ now = 0
    /\ queue = schedule_connection_check(schedule_ping(<<>>, 0), 0)
    /\ pc = "login"
    /\ ctx = "login"
    /\ depth = 0
    /\ offers = <<>>
    /\ idx = 0
    /\ purchases = 0
    /\ auth_id = FALSE
    /\ err = ""
    /\ calls = <<>>
    /\ config_instance = "Config"
    /\ lock = "held"
    /\ session_file = "missing"
    /\ session = "fresh"
    /\ max_login_attempts \in 0..MaxLoginAttempts
    /\ inbox \in SeqsUpTo(MailboxMails, MaxMail)
    /\ snapshots \in Listings(Len(inbox), max_login_attempts)
    /\ responses \in Responses(snapshots, max_login_attempts)
    /\ pre_messages_list = <<>>
    /\ polled = 0
    /\ code = <<>>
    /\ verify_code = <<>>
    /\ session_saved = FALSE
    /\ cookies = {}
    /\ pickled = NoPickle
    /\ fired = <<>>
    /\ lagged = FALSE
    /\ cwd = <<>>
    /\ ppc = <<>>
    /\ lock_files = {}

SpecMailbox == InitMailbox /\ [][NextLogin]_vars

\* the message is addressed to the account and its subject carries a code
IsCodeMail(id) ==
    /\ Contains(Email, inbox[id].receiver)
    /\ Match(inbox[id].subject) # <<>>

\* the code mails first listed at poll k, k = 1 being the first poll after the baseline
AppearAt(k) == {id \in (snapshots[k] + 1)..snapshots[k + 1] : IsCodeMail(id)}

AppearPolls == {k \in 1..max_login_attempts : AppearAt(k) # {}}

\* the first poll at which a code mail newer than the baseline is listed, 0 if none
FirstAppearance == IF AppearPolls = {} THEN 0 ELSE Min(AppearPolls)

NewestOf(S) == CHOOSE x \in S : \A y \in S : y <= x

Expected == Match(inbox[NewestOf(AppearAt(FirstAppearance))].subject)

\* errors of the store refusing a request of the login
Refusals == {"NotImplementedError", "Exception", "KeyError"}

\* C2: when the baseline listing is not empty and a code mail first appears at poll
\* k <= max_login_attempts, the polling stops at poll k with the digit group of that
\* mail's subject, that code and no other is sent to verify, and the login ends
\* logged in unless the store refuses a request.
C2_CodeOfFirstAppearance ==
    (ctx \in {"poll", "verify"} /\ snapshots[1] >= 1 /\ FirstAppearance >= 1) =>
        /\ polled <= FirstAppearance
        /\ (polled = FirstAppearance /\ pc # "crashed") => code = Expected
        /\ ctx = "verify" => verify_code = <<Expected>>
        /\ pc = "crashed" => err \in Refusals
        /\ pc = "logged_in" => session_saved

\* C2 witness: other mail arrived at poll 1, the code mail at poll 2, and the login
\* ended logged in with that mail's code
C2_Witness ==
    /\ pc = "logged_in"
    /\ polled = 2
    /\ FirstAppearance = 2
    /\ snapshots[1] >= 1
    /\ snapshots[2] > snapshots[1]
    /\ verify_code = <<Expected>>

\* C3: in both variants, when no code mail newer than the baseline appears within
\* max_login_attempts polls, nothing is sent to verify and the login ends with the
\* code-not-found error.
C3_NoCodeFailsWithoutVerify ==
    (ctx \in {"poll", "verify"} /\ snapshots[1] >= 1 /\ FirstAppearance = 0) =>
        /\ verify_code = <<>>
        /\ pc # "poll" => (pc = "crashed" /\ err = "ValueError")

\* the request that makes the store send the code: request_otc, or the email post
RequestOps == {"request_otc", "submit_email"}

\* the request that hands the code to the store: verify_otc, or the oneTimeCode post
VerifyOps == {"verify_otc", "submit_code"}

\* the positions of the steps of the given kinds in the history of the login
StepsOf(ops) == {j \in 1..Len(calls) : calls[j].op \in ops}

\* C15: in both variants the request that makes the store send the code comes
\* directly after the first inbox listing of the login, that listing is the one the
\* baseline is taken from, and it is the only request for a code.
C15_BaselineListedBeforeRequest ==
    \A j \in StepsOf(RequestOps) :
        /\ j > 1
        /\ calls[j - 1].op = "get_messages"
        /\ calls[j - 1].id = snapshots[1]
        /\ \A i \in 1..(j - 2) : calls[i].op \notin RequestOps \cup {"get_messages"}
        /\ polled = 0 => pre_messages_list = List(calls[j - 1].id)

\* C15 witness: the request was accepted and a mail that arrived after it gave the code
C15_Witness ==
    /\ \E j \in StepsOf(RequestOps) : calls[j].status = 200
    /\ polled >= 1
    /\ code # <<>>
    /\ snapshots[polled + 1] > snapshots[1]

\* the positions in the history where a message was handed to get_code_from_message
Inspected == StepsOf({"get_code_from_message"})

\* input("Enter the code: ") was reached: the code is typed, not read from a mail
Typed == StepsOf({"input"}) # {}

\* C16: in both variants every message the polling hands to get_code_from_message is
\* newer than the whole baseline listing, and a code that was not typed is the one
\* read from the last message inspected; that code and no other is sent to verify.
C16_NoCodeFromBaselineOrOlder ==
    /\ \A j \in Inspected : calls[j].id > snapshots[1]
    /\ (code # <<>> /\ ~Typed) =>
          /\ Inspected # {}
          /\ code = get_code_from_message(calls[NewestOf(Inspected)].id)
    /\ verify_code # <<>> => verify_code = <<code>>

\* C16 witness: a code mail lay at or below the baseline, and a different code, read
\* from a newer mail, was sent to verify
C16_Witness ==
    /\ verify_code # <<>>
    /\ ~Typed
    /\ \E id \in 1..snapshots[1] :
          /\ IsCodeMail(id)
          /\ verify_code[1] # Match(inbox[id].subject)

\* C32: whatever the listings return, also when a message of the baseline (the
\* newest one in particular) is missing from a later listing, the polling hands no
\* message to get_code_from_message that was in the inbox when the baseline was
\* listed, and so reads no code from one.
C32_NoMailOfBaselineInspected ==
    \A j \in Inspected : calls[j].id \notin 1..snapshots[1]

\* how a login ends that found no code: ValueError, or the prompt for a typed code
\* reading a closed stdin
CodeNotFound == {"ValueError", "EOFError"}

\* C33: a listing that is empty or that failed, at the baseline or at a poll, counts
\* as "no new mail yet": the login goes on polling and ends by success or without
\* a code (or by the store refusing a request), never by another error.
C33_BadListingIsNoNewMail ==
    pc = "crashed" => err \in CodeNotFound \cup Refusals

\* the positions in the history where the inbox was listed
Listed == StepsOf({"get_messages"})

\* the listings made after the request for a code: the polls
Polls == {j \in Listed : \E r \in StepsOf(RequestOps) : r < j}

\* C37: a login lists the inbox at most max_login_attempts times after it asked for
\* the code (not at all with max_login_attempts = 0), hands a code to the store at
\* most once, and lists the inbox no more once a pass of the loop gave a code.
C37_PollsBounded ==
    /\ [](/\ Cardinality(Polls) <= max_login_attempts
          /\ Cardinality(Polls) = polled
          /\ Cardinality(StepsOf(VerifyOps)) <= 1)
    /\ [][code # <<>> => UNCHANGED <<Listed, polled>>]_vars

\* the listing holds at least one message
NonEmpty(listing) == listing \notin {Failed, <<>>}

\* a pass of the polling loop of either variant is made
PollStep == pc = "poll" /\ ~LoopDone /\ polled' = polled + 1

C37_Witness ==
    /\ max_login_attempts = 2
    /\ Cardinality(Polls) = 1
    /\ code # <<>>
    /\ Cardinality(StepsOf(VerifyOps)) = 1

\* the listing made last before position j of the history
ListingBefore(j) == NewestOf({i \in Listed : i < j})

\* C17 (state part): with a baseline listing that is not empty, the baseline is the
\* listing made last; every message inspected is newer than the listing before the
\* one it was found in and not newer than that one, so an iteration that lists
\* nothing new inspects nothing; no message is inspected twice; and when the polling
\* ends without a code, no code mail newer than the first baseline was ever listed.
BaselineFollowsListings ==
    (snapshots[1] >= 1 /\ Listed # {}) =>
        /\ pre_messages_list = List(calls[NewestOf(Listed)].id)
        /\ \A j \in Inspected :
              LET l == ListingBefore(j)
              IN  /\ calls[ListingBefore(l)].id < calls[j].id
                  /\ calls[j].id <= calls[l].id
        /\ \A j, k \in Inspected : calls[j].id = calls[k].id => j = k
        /\ (pc = "poll" /\ LoopDone /\ code = <<>>) => FirstAppearance = 0

\* C17: during the polling of either variant the baseline only moves forward and
\* follows the listings as BaselineFollowsListings says.
C17_BaselineMovesForward ==
    /\ []BaselineFollowsListings
    /\ [][Len(pre_messages_list') >= Len(pre_messages_list)]_vars

\* C17 witness: the first poll listed new mail without a code and moved the baseline,
\* the second poll listed a code mail and found the code
C17_Witness ==
    /\ polled = 2
    /\ code # <<>>
    /\ Cardinality(Inspected) >= 2
    /\ pre_messages_list = List(snapshots[3])
    /\ snapshots[1] >= 1
    /\ snapshots[2] > snapshots[1]
    /\ snapshots[3] > snapshots[2]

\* the positions in the history where the store accepted the code: verify_otc
\* answered 200, or the oneTimeCode post answered 200 with a code in the redirect
VerifySucceeded ==
    {j \in StepsOf(VerifyOps) :
        /\ calls[j].status = 200
        /\ calls[j].op = "submit_code" =>
              (j < Len(calls) /\ calls[j + 1].op = "redirect_code")}

Saves == StepsOf({"save_session"})

\* the login has returned or raised
LoginEnded == pc \in {"logged_in", "crashed"}

\* the session file is written only after the store accepted the code
SavedOnlyAfterVerify ==
    /\ session_saved <=> Saves # {}
    /\ \A s \in Saves : \E j \in VerifySucceeded : j < s

RequestsRefused == {j \in StepsOf(RequestOps) : calls[j].status # 200}

\* C19: in both variants a request for the code that is answered with a status other
\* than 200 is the last step of the login: the login has raised, the request was
\* made once, the inbox was not polled, nothing was sent to verify and the session
\* was not saved.
C19_RequestRefusedIsFatal ==
    \A j \in RequestsRefused :
        /\ j = Len(calls)
        /\ pc = "crashed"
        /\ err \in {"NotImplementedError", "Exception"}
        /\ Cardinality(StepsOf(RequestOps)) = 1
        /\ polled = 0
        /\ code = <<>>
        /\ verify_code = <<>>
        /\ ~session_saved

\* C19 witness: the request was refused although a code mail would have arrived
C19_Witness ==
    /\ RequestsRefused # {}
    /\ variant = "lotr"
    /\ snapshots[1] >= 1
    /\ FirstAppearance >= 1

-----------------------------------------------------------------------------
(* The session pickle. A connector holds a requests Session (its cookies) and,
   in the base connector, auth_id; save_session pickles self.session,
   load_session replaces self.session by what the pickle holds. *)

\* the cookie by which the store knows the login, and one it does not look at
StoreCookie == "store"

CookieNames == {StoreCookie, "locale"}

\* what a request of the connector carries that the store accepts as logged in:
\* the session's cookie, and for the base connector the X-Rpc-Auth-Id header that
\* get_default_headers adds while self.auth_id is set
Authenticates ==
    /\ StoreCookie \in cookies
    /\ variant = "swgoh" => auth_id

\* a response is received: the Session keeps the cookies it sets or expires
Session_response ==
    /\ pc = "ready"
    /\ \E jar \in SUBSET CookieNames :
          /\ jar # cookies
          /\ cookies' = jar
    /\ UNCHANGED <<variant, cfg, now, queue, pc, ctx, depth, offers, idx, purchases,
                   auth_id, err, calls>>
    /\ UNCHANGED pickled
    /\ UNCHANGED <<bootVars, loginVars, histVars, procVars>>

\* _finish_login: self.auth_id = finish.json()["authId"]
Session__finish_login ==
    /\ pc = "ready"
    /\ variant = "swgoh"
    /\ ~auth_id
    /\ auth_id' = TRUE
    /\ UNCHANGED <<variant, cfg, now, queue, pc, ctx, depth, offers, idx, purchases,
                   err, calls>>
    /\ UNCHANGED <<bootVars, loginVars, sessVars, histVars, procVars>>

\* save_session
Session_save_session ==
    /\ pc = "ready"
    /\ session_file' = "valid"
    /\ pickled' = pickle_dump(cookies)
    /\ UNCHANGED schedVars
    /\ UNCHANGED <<config_instance, lock, session, cookies>>
    /\ UNCHANGED <<loginVars, histVars, procVars>>

\* load_session, called on the connector that is running
Session_load_session ==
    /\ pc = "ready"
    /\ IF session_file = "missing"
       THEN /\ Raise("FileNotFoundError")
            /\ UNCHANGED <<session, cookies>>
       ELSE IF load_session # ""
       THEN /\ Raise(load_session)
            /\ UNCHANGED <<session, cookies>>
       ELSE /\ session' = "loaded"
            /\ cookies' = pickle_load(pickled)
            /\ UNCHANGED <<pc, err>>
    /\ UNCHANGED <<variant, cfg, now, queue, ctx, depth, offers, idx, purchases,
                   auth_id, calls>>
    /\ UNCHANGED <<config_instance, lock, session_file, pickled>>
    /\ UNCHANGED <<loginVars, histVars, procVars>>

\* __init__ of a new connector for the same email: Session(), auth_id = None, and
\* load_session when the file exists
Session___init__ ==
    /\ pc = "ready"
    /\ auth_id' = FALSE
    /\ IF session_file = "missing"
       THEN /\ session' = "fresh"
            /\ cookies' = {}
            /\ UNCHANGED <<pc, err>>
       ELSE IF load_session # ""
       THEN /\ Raise(load_session)
            /\ session' = "fresh"
            /\ cookies' = {}
       ELSE /\ session' = "loaded"
            /\ cookies' = pickle_load(pickled)
            /\ UNCHANGED <<pc, err>>
    /\ UNCHANGED <<variant, cfg, now, queue, ctx, depth, offers, idx, purchases, calls>>
    /\ UNCHANGED <<config_instance, lock, session_file, pickled>>
    /\ UNCHANGED <<loginVars, histVars, procVars>>

InitSession ==
    /\ variant \in {"lotr", "swgoh"}
    /\ cfg = Config(Absent, Absent, Absent)
    /\ now = 0
    /\ queue = <<>>
    /\ pc = "ready"
    /\ ctx = "start"
    /\ depth = 0
    /\ offers = <<>>
    /\ idx = 0
    /\ purchases = 0
    /\ auth_id = FALSE
    /\ err = ""
    /\ calls = <<>>
    /\ config_instance = "Config"
    /\ lock = "held"
    /\ session_file \in {"missing", "valid", "corrupt"}
    /\ session = "fresh"
    /\ max_login_attempts = 0
    /\ inbox = <<>>
    /\ pre_messages_list = <<>>
    /\ polled = 0
    /\ code = <<>>
    /\ snapshots = <<>>
    /\ responses = <<>>
    /\ verify_code = <<>>
    /\ session_saved = FALSE
    /\ cookies = {}
    /\ pickled \in IF session_file = "valid"
                   THEN {pickle_dump(jar) : jar \in SUBSET CookieNames}
                   ELSE {NoPickle}
    /\ fired = <<>>
    /\ lagged = FALSE
    /\ cwd = <<>>
    /\ ppc = <<>>
    /\ lock_files = {}

NextSession ==
    \/ Session_response
    \/ Session__finish_login
    \/ Session_save_session
    \/ Session_load_session
    \/ Session___init__

SpecSession == InitSession /\ [][NextSession]_vars

\* the pickle on disk is the one save_session writes for the session in memory
InSync == session_file = "valid" /\ pickled = pickle_dump(cookies)

\* C21: a load that follows a save, by the same connector or by a new connector for
\* the same email, leaves a session with the same cookies that authenticates if the
\* saved one did; a save that follows a load leaves the pickle as it was.
C21_SessionRoundTrips ==
    [][ /\ (InSync /\ (Session_load_session \/ Session___init__)) =>
              /\ cookies' = cookies
              /\ Authenticates => Authenticates'
        /\ (session_file = "valid" /\ cookies = pickle_load(pickled)
               /\ Session_save_session) =>
              pickled' = pickled ]_vars

-----------------------------------------------------------------------------
(* The lock file. cli.main is started several times for the same account, each
   time from some working directory and with the default configuration file.
   LockFile is given a relative name, which the system resolves in the working
   directory of the process; the session file lies in the directory the
   configuration names, by default the one of the configuration file. *)

MaxProcs == 2

Procs == 1..MaxProcs

\* the directory of cli.py and default_config.ini, and another one
ScriptDir == "src"

Dirs == {ScriptDir, "home"}

\* f'webstore_{args.email}.lock', opened by the process
LockPath(p) == [dir |-> cwd[p], name |-> <<"webstore_", Email, ".lock">>]

\* Config.webstore_sessions_location without the option: fallback_base_path, the
\* directory of the configuration file
webstore_sessions_location == ScriptDir

\* self.session_filename: in the sessions location, named after the email
session_filename(p) == [dir |-> webstore_sessions_location, email |-> Email]

\* the process is between LockFile's return and the end of lock.close()
PastLock(p) == ppc[p] \in {"construct", "start", "close"}

\* the process ends with the lock open: the system drops its flock
process_exit(p) ==
    /\ ppc' = [ppc EXCEPT ![p] = "done"]
    /\ lock_files' = lock_files \ {LockPath(p)}

\* main, from LockFile(...) to sys.exit(1): flock(LOCK_EX | LOCK_NB) on the file
main_LockFile ==
    /\ \E p \in Procs :
          /\ ppc[p] = "main"
          /\ IF LockPath(p) \notin lock_files
             THEN /\ lock_files' = lock_files \cup {LockPath(p)}
                  /\ ppc' = [ppc EXCEPT ![p] = "construct"]
             ELSE /\ ppc' = [ppc EXCEPT ![p] = "exited"]
                  /\ UNCHANGED lock_files
    /\ UNCHANGED cwd
    /\ UNCHANGED <<schedVars, bootVars, loginVars, sessVars, histVars>>

\* connector = LotRWebstoreConnector(...): constructed, or __init__ raises
main_construct ==
    /\ \E p \in Procs :
          /\ ppc[p] = "construct"
          /\ \/ /\ ppc' = [ppc EXCEPT ![p] = "start"]
                /\ UNCHANGED lock_files
             \/ process_exit(p)
    /\ UNCHANGED cwd
    /\ UNCHANGED <<schedVars, bootVars, loginVars, sessVars, histVars>>

\* connector.start(): returns, or raises
main_start ==
    /\ \E p \in Procs :
          /\ ppc[p] = "start"
          /\ \/ /\ ppc' = [ppc EXCEPT ![p] = "close"]
                /\ UNCHANGED lock_files
             \/ process_exit(p)
    /\ UNCHANGED cwd
    /\ UNCHANGED <<schedVars, bootVars, loginVars, sessVars, histVars>>

\* lock.close()
main_lock_close ==
    /\ \E p \in Procs :
          /\ ppc[p] = "close"
          /\ process_exit(p)
    /\ UNCHANGED cwd
    /\ UNCHANGED <<schedVars, bootVars, loginVars, sessVars, histVars>>

\* the script is started again for the account, from some directory
main ==
    /\ \E p \in Procs, dir \in Dirs :
          /\ ppc[p] \in {"done", "exited"}
          /\ cwd' = [cwd EXCEPT ![p] = dir]
          /\ ppc' = [ppc EXCEPT ![p] = "main"]
    /\ UNCHANGED lock_files
    /\ UNCHANGED <<schedVars, bootVars, loginVars, sessVars, histVars>>

InitLock ==
    /\ variant = "lotr"
    /\ cfg = Config(Absent, Absent, Absent)
    /\ now = 0
    /\ queue = <<>>
    /\ pc = "main"
    /\ ctx = "start"
    /\ depth = 0
    /\ offers = <<>>
    /\ idx = 0
    /\ purchases = 0
    /\ auth_id = FALSE
    /\ err = ""
    /\ calls = <<>>
    /\ config_instance = "Config"
    /\ lock = "free"
    /\ session_file = "missing"
    /\ session = "fresh"
    /\ max_login_attempts = 0
    /\ inbox = <<>>
    /\ pre_messages_list = <<>>
    /\ polled = 0
    /\ code = <<>>
    /\ snapshots = <<>>
    /\ responses = <<>>
    /\ verify_code = <<>>
    /\ session_saved = FALSE
    /\ cookies = {}
    /\ pickled = NoPickle
    /\ fired = <<>>
    /\ lagged = FALSE
    /\ cwd \in [Procs -> Dirs]
    /\ ppc = [p \in Procs |-> "main"]
    /\ lock_files = {}

NextLock ==
    \/ main_LockFile
    \/ main_construct
    \/ main_start
    \/ main_lock_close
    \/ main

SpecLock == InitLock /\ [][NextLock]_vars

\* of the processes that open the same lock file, one at most is past the lock;
\* the files locked are those of the processes past the lock
LockFileExclusive ==
    /\ \A p, q \in Procs :
          (PastLock(p) /\ PastLock(q) /\ LockPath(p) = LockPath(q)) => p = q
    /\ lock_files = {LockPath(p) : p \in {q \in Procs : PastLock(q)}}

\* LockFile ends the process with status 1 exactly when its file is locked, and
\* the process then never was past the lock
LockErrorExits ==
    [][ \A p \in Procs :
           ppc[p] # ppc'[p] =>
              /\ ppc'[p] = "exited" <=> (ppc[p] = "main" /\ LockPath(p) \in lock_files)
              /\ ppc'[p] = "construct" <=>
                    (ppc[p] = "main" /\ LockPath(p) \notin lock_files) ]_vars

\* C29: of the processes started for one account email, which share its session
\* file, at most one at a time is past the acquisition of the lock.
C29_OneProcessPerAccount ==
    \A p, q \in Procs :
       (PastLock(p) /\ PastLock(q) /\ session_filename(p) = session_filename(q))
          => p = q

====
